---- MODULE Spec2Model ----
(***************************************************************************)
(* Deterministic extraction and scoring core of the document extraction   *)
(* service (app/extractors/deterministic.py), with the LLM fallback gate   *)
(* (app/fallback/gate.py), the document-level validation                   *)
(* (app/validators/rules.py), the pipeline that runs them                  *)
(* (app/pipeline/orchestrator.py) and the job that runs the pipeline       *)
(* (app/workers/celery_app.py, app/api/routes.py).                         *)
(*                                                                         *)
(* Texts are sequences of one-character strings, so that lower(), strip(), *)
(* split(), join() and the difflib similarity ratio are computed, not     *)
(* assumed.  Confidences are fixed-point numbers in units of 1/10000       *)
(* (0.85 is 8500); a product 0.75 * ratio is truncated to that unit.  The  *)
(* inputs drawn below are ones on which this arithmetic orders and         *)
(* compares confidences as the floating-point arithmetic of the code does. *)
(***************************************************************************)
EXTENDS Integers, Sequences, FiniteSets, TLC

VARIABLES
    doc,            \* NormalizedDocument: sequence of pages
    fc,             \* FieldConfig of the field being extracted
    finditer,       \* what pattern.finditer(full_text) yields, all patterns in order
    pc,             \* position inside extract_field / the direct call being made
    all_candidates, \* extract_field: all_candidates; score_candidates: candidates
    adjusted,       \* score_candidates: scored, after the per-candidate loop
    scored,         \* score_candidates: the returned list
    result,         \* the FieldResult returned by extract_field
    origin,         \* history: where each element of all_candidates was emitted
    norm_calls,     \* number of calls of normalizer_fn made so far
    val_calls,      \* number of calls of validator_fn made so far
    settings,       \* get_settings(): llm_fallback_enabled, llm_confidence_threshold
    llm_provider,   \* get_llm_provider(): None, or a provider and what its extract() returns
    use_llm,        \* the value returned by should_use_llm
    fr2,            \* the FieldResult returned by llm_extract_field
    doc_config,     \* DocumentConfig: fields in order, cross_field_validations
    extracted_fields, \* run_extraction_pipeline: extracted_fields, by field name
    summary,        \* the ValidationSummary returned by compute_validation_summary
    errors,         \* the list returned by run_cross_field_validation
    job_status,     \* Job.status of the submitted job ("none" before create_job)
    retries,        \* extract_task: self.request.retries of the current attempt
    artifacts,      \* number of Artifact rows of kind "original" of the document
    field_rows,     \* number of times the FieldResultDB rows of the job were added
    pipeline_runs,  \* history: number of calls of run_extraction_pipeline
    response        \* the JobResponse last returned by GET /v1/jobs/{job_id}

\* state of the orchestrator, the LLM gate and the document-level validation
pipeline_vars == <<settings, llm_provider, use_llm, fr2, doc_config,
                   extracted_fields, summary, errors>>

\* state of the job, its task and the database rows written for it
job_vars == <<job_status, retries, artifacts, field_rows, pipeline_runs, response>>

vars == <<doc, fc, finditer, pc, all_candidates, adjusted, scored, result,
          origin, norm_calls, val_calls, settings, llm_provider, use_llm, fr2,
          doc_config, extracted_fields, summary, errors, job_status, retries,
          artifacts, field_rows, pipeline_runs, response>>

-----------------------------------------------------------------------------
(* Bounds of the model.                                                    *)

MaxTokens == 4
MaxWindowTokens == 4
MaxCands == 3
MaxMatches == 5
MaxPipeTokens == 2
MaxBBoxTokens == 3
MaxNext3Tokens == 4
MaxBBoxMatches == 2

-----------------------------------------------------------------------------
(* Program constants, in units of 1/10000.                                 *)

WeightAnchor == 7500
WeightRegex == 5500
ThresholdNum == 80
ThresholdDen == 100
NormBonus == 1000
ValidBonus == 1500
ErrorPenalty == 500
ScoreCap == 10000
ConflictFloor == 4000
ConflictPenalty == 500
VerifiedMin == 8500
ReviewMin == 5000
MaxAlternatives == 4
MaxRetries == 2

-----------------------------------------------------------------------------
(* Generic sequence helpers.                                               *)

Min2(a, b) == IF a <= b THEN a ELSE b

Max2(a, b) == IF a >= b THEN a ELSE b

RECURSIVE Concat(_)
Concat(ss) == IF ss = <<>> THEN <<>> ELSE Head(ss) \o Concat(Tail(ss))

\* Python s[lo:hi] on 0-based indices, lo and hi already clamped by the caller
Slice(s, lo, hi) == IF hi <= lo THEN <<>> ELSE SubSeq(s, lo + 1, Min2(hi, Len(s)))

SeqsUpTo(S, n) == UNION {[1..k -> S] : k \in 0..n}

-----------------------------------------------------------------------------
(* Texts: str methods used by the extractor, on sequences of characters.   *)

Whitespace == {" "}

\* str.lower() on the alphabet of the model
LowerChar(c) ==
    CASE c = "T" -> "t"
      [] c = "D" -> "d"
      [] OTHER -> c

Lower(s) == [i \in 1..Len(s) |-> LowerChar(s[i])]

RECURSIVE LStripChars(_, _)
LStripChars(s, cs) ==
    IF s # <<>> /\ Head(s) \in cs THEN LStripChars(Tail(s), cs) ELSE s

RECURSIVE RStripChars(_, _)
RStripChars(s, cs) ==
    IF s # <<>> /\ s[Len(s)] \in cs
    THEN RStripChars(SubSeq(s, 1, Len(s) - 1), cs)
    ELSE s

\* str.strip(chars)
StripChars(s, cs) == RStripChars(LStripChars(s, cs), cs)

\* str.strip()
Strip(s) == StripChars(s, Whitespace)

\* str.split(): the maximal runs of non-whitespace characters
RECURSIVE SplitFrom(_, _, _)
SplitFrom(s, i, word) ==
    IF i > Len(s)
    THEN IF word = <<>> THEN <<>> ELSE <<word>>
    ELSE IF s[i] \in Whitespace
         THEN IF word = <<>> THEN SplitFrom(s, i + 1, <<>>)
              ELSE <<word>> \o SplitFrom(s, i + 1, <<>>)
         ELSE SplitFrom(s, i + 1, Append(word, s[i]))

Split(s) == SplitFrom(s, 1, <<>>)

\* " ".join(parts)
RECURSIVE JoinSpace(_)
JoinSpace(parts) ==
    IF parts = <<>> THEN <<>>
    ELSE IF Len(parts) = 1 THEN Head(parts)
    ELSE Head(parts) \o <<" ">> \o JoinSpace(Tail(parts))

-----------------------------------------------------------------------------
(* difflib.SequenceMatcher(None, a, b).ratio(), no junk (texts are far     *)
(* shorter than the 200 elements at which autojunk starts).                *)

\* length of the common run of a from i and b from j, inside [i, ahi) x [j, bhi)
RECURSIVE RunLen(_, _, _, _, _, _)
RunLen(a, b, i, j, ahi, bhi) ==
    IF i < ahi /\ j < bhi /\ a[i] = b[j]
    THEN 1 + RunLen(a, b, i + 1, j + 1, ahi, bhi)
    ELSE 0

\* find_longest_match: the longest block, earliest in a, then earliest in b
FindLongestMatch(a, b, alo, ahi, blo, bhi) ==
    LET starts == (alo..(ahi - 1)) \X (blo..(bhi - 1))
        size(p) == RunLen(a, b, p[1], p[2], ahi, bhi)
        best == IF starts = {} THEN 0
                ELSE CHOOSE k \in {size(p) : p \in starts} :
                        \A p \in starts : size(p) <= k
    IN  IF best = 0 THEN <<alo, blo, 0>>
        ELSE LET i == CHOOSE x \in alo..(ahi - 1) :
                        /\ \E y \in blo..(bhi - 1) : size(<<x, y>>) = best
                        /\ \A x2 \in alo..(x - 1) :
                              \A y \in blo..(bhi - 1) : size(<<x2, y>>) # best
                 j == CHOOSE y \in blo..(bhi - 1) :
                        /\ size(<<i, y>>) = best
                        /\ \A y2 \in blo..(y - 1) : size(<<i, y2>>) # best
             IN  <<i, j, best>>

\* get_matching_blocks: total size of the blocks found left and right of the longest
RECURSIVE MatchingChars(_, _, _, _, _, _)
MatchingChars(a, b, alo, ahi, blo, bhi) ==
    LET m == FindLongestMatch(a, b, alo, ahi, blo, bhi)
        i == m[1]
        j == m[2]
        k == m[3]
    IN  IF k = 0 THEN 0
        ELSE k
             + (IF alo < i /\ blo < j
                THEN MatchingChars(a, b, alo, i, blo, j) ELSE 0)
             + (IF i + k < ahi /\ j + k < bhi
                THEN MatchingChars(a, b, i + k, ahi, j + k, bhi) ELSE 0)

\* ratio() as the fraction <<2 * matches, len(a) + len(b)>>; 1.0 for two empty texts
Ratio(a, b) ==
    IF Len(a) + Len(b) = 0 THEN <<1, 1>>
    ELSE <<2 * MatchingChars(a, b, 1, Len(a) + 1, 1, Len(b) + 1), Len(a) + Len(b)>>

\* _fuzzy_score(a, b)
FuzzyScore(a, b) == Ratio(Lower(a), Lower(b))

\* the threshold taken as exclusive
MeetsThresholdStrict(r) == r[1] * ThresholdDen > ThresholdNum * r[2]

\* match_score >= ANCHOR_FUZZY_THRESHOLD
MeetsThreshold(r) == r[1] * ThresholdDen >= ThresholdNum * r[2]

\* METHOD_WEIGHTS[ANCHOR] * match_score
AnchorConfidence(r) == (WeightAnchor * r[1]) \div r[2]


-----------------------------------------------------------------------------
(* Data model (app/models.py).  Python's None is a value of the same shape *)
(* as the values it stands in for.                                         *)

None == <<"None">>

NoBBox == [x0 |-> -1, y0 |-> -1, x1 |-> -1, y1 |-> -1, page |-> -1]

\* Token(text, bbox, line_id) at index i of page page_no, laid out left to right
Token(text, line_id, i, page_no) ==
    [text |-> text, line_id |-> line_id,
     bbox |-> [x0 |-> i, y0 |-> line_id, x1 |-> i + 1, y1 |-> line_id + 1,
               page |-> page_no]]

\* NormalizedPage(page_no, tokens)
Page(page_no, tokens) == [page_no |-> page_no, tokens |-> tokens]

\* tokens[i], i counted from 0 as in the code
At(tokens, i) == tokens[i + 1]

FieldCandidate(value, raw_value, confidence, method, source, evidence) ==
    [value |-> value, raw_value |-> raw_value, confidence |-> confidence,
     method |-> method, source |-> source, evidence |-> evidence]

SourceLocation(page, bbox) == [page |-> page, bbox |-> bbox]

\* FieldResult(field_name=..., status=MISSING): every other attribute at its default
MissingResult ==
    [value |-> None, raw_value |-> None, confidence |-> 0, status |-> "missing",
     method |-> "none", source |-> SourceLocation(-1, NoBBox), evidence |-> None,
     alternatives |-> <<>>, validation_errors |-> <<>>]

-----------------------------------------------------------------------------
(* _token_text_near                                                        *)

ValueItem(tok) == [text |-> tok.text, bbox |-> tok.bbox]

\* first loop: tokens after the anchor on its line, until a token of a larger line id
RECURSIVE SameLineScan(_, _, _, _)
SameLineScan(tokens, k, anchor_line, page_no) ==
    IF k >= Len(tokens) THEN <<>>
    ELSE LET tok == At(tokens, k)
         IN  IF tok.line_id = anchor_line /\ tok.bbox.page = page_no
             THEN <<ValueItem(tok)>> \o SameLineScan(tokens, k + 1, anchor_line, page_no)
             ELSE IF tok.line_id > anchor_line
                  THEN <<>>
                  ELSE SameLineScan(tokens, k + 1, anchor_line, page_no)

\* NextLineId taking the first token of a larger line id
RECURSIVE NextLineIdLarger(_, _, _)
NextLineIdLarger(tokens, k, anchor_line) ==
    IF k >= Len(tokens) THEN [is_none |-> TRUE, id |-> 0]
    ELSE IF At(tokens, k).line_id > anchor_line
         THEN [is_none |-> FALSE, id |-> At(tokens, k).line_id]
         ELSE NextLineIdLarger(tokens, k + 1, anchor_line)

\* next_line_id: line id of the first token after the anchor that is off its line
RECURSIVE NextLineId(_, _, _)
NextLineId(tokens, k, anchor_line) ==
    IF k >= Len(tokens) THEN [is_none |-> TRUE, id |-> 0]
    ELSE IF At(tokens, k).line_id # anchor_line
         THEN [is_none |-> FALSE, id |-> At(tokens, k).line_id]
         ELSE NextLineId(tokens, k + 1, anchor_line)

\* every token of the page list that carries line id lid
RECURSIVE WholeLine(_, _, _, _)
WholeLine(tokens, k, lid, page_no) ==
    IF k >= Len(tokens) THEN <<>>
    ELSE LET tok == At(tokens, k)
             rest == WholeLine(tokens, k + 1, lid, page_no)
         IN  IF tok.line_id = lid /\ tok.bbox.page = page_no
             THEN <<ValueItem(tok)>> \o rest
             ELSE rest

\* next_3_lines loop: stops right after the append that makes three line ids seen
RECURSIVE Next3Scan(_, _, _, _, _)
Next3Scan(tokens, k, anchor_line, page_no, lines_found) ==
    IF k >= Len(tokens) THEN <<>>
    ELSE LET tok == At(tokens, k)
         IN  IF tok.bbox.page = page_no /\ tok.line_id > anchor_line
             THEN LET found == lines_found \cup {tok.line_id}
                  IN  IF Cardinality(found) >= 3
                      THEN <<ValueItem(tok)>>
                      ELSE <<ValueItem(tok)>>
                           \o Next3Scan(tokens, k + 1, anchor_line, page_no, found)
             ELSE Next3Scan(tokens, k + 1, anchor_line, page_no, lines_found)

TokenTextNear(tokens, anchor_idx, search_window, page_no) ==
    LET anchor_line == At(tokens, anchor_idx).line_id
    IN  IF search_window \in {"same_line_or_next", "same_line_right"}
        THEN LET results == SameLineScan(tokens, anchor_idx + 1, anchor_line, page_no)
             IN  IF results = <<>> /\ search_window = "same_line_or_next"
                 THEN LET next_line_id == NextLineId(tokens, anchor_idx + 1, anchor_line)
                      IN  IF ~next_line_id.is_none
                          THEN WholeLine(tokens, 0, next_line_id.id, page_no)
                          ELSE results
                 ELSE results
        ELSE IF search_window = "next_3_lines"
             THEN Next3Scan(tokens, anchor_idx + 1, anchor_line, page_no, {})
             ELSE <<>>

\* _best_bbox
BestBBox(bboxes) ==
    IF bboxes = <<>> THEN NoBBox
    ELSE LET idx == 1..Len(bboxes)
         IN  [x0 |-> CHOOSE v \in {bboxes[k].x0 : k \in idx} :
                        \A k \in idx : v <= bboxes[k].x0,
              y0 |-> CHOOSE v \in {bboxes[k].y0 : k \in idx} :
                        \A k \in idx : v <= bboxes[k].y0,
              x1 |-> CHOOSE v \in {bboxes[k].x1 : k \in idx} :
                        \A k \in idx : v >= bboxes[k].x1,
              y1 |-> CHOOSE v \in {bboxes[k].y1 : k \in idx} :
                        \A k \in idx : v >= bboxes[k].y1,
              page |-> bboxes[1].page]

-----------------------------------------------------------------------------
(* anchor_extract                                                          *)

AnchorStrip == {":", "#"}

\* tok.text.lower().strip(":#")
TokLower(tok) == StripChars(Lower(tok.text), AnchorStrip)

\* AnchorMatch with matched_span left at 1 for a multi-word anchor
AnchorMatchSpanOne(tokens, i, anchor) ==
    LET anchor_words == Split(Lower(anchor))
        n == Len(tokens)
    IN  IF Len(anchor_words) = 1
        THEN <<FuzzyScore(TokLower(At(tokens, i)), anchor_words[1]), 1>>
        ELSE IF i + Len(anchor_words) <= n
             THEN LET span_text ==
                          JoinSpace([k \in 1..Len(anchor_words) |->
                                        TokLower(At(tokens, i + k - 1))])
                  IN  <<FuzzyScore(span_text, anchor), 1>>
             ELSE <<(<<0, 1>>), 1>>

\* the span of the anchor at token i: <<match_score, matched_span>>
AnchorMatch(tokens, i, anchor) ==
    LET anchor_words == Split(Lower(anchor))
        n == Len(tokens)
    IN  IF Len(anchor_words) = 1
        THEN <<FuzzyScore(TokLower(At(tokens, i)), anchor_words[1]), 1>>
        ELSE IF i + Len(anchor_words) <= n
             THEN LET span_text ==
                          JoinSpace([k \in 1..Len(anchor_words) |->
                                        TokLower(At(tokens, i + k - 1))])
                  IN  <<FuzzyScore(span_text, anchor), Len(anchor_words)>>
             ELSE <<(<<0, 1>>), 1>>

\* txt.strip().lstrip(":").strip(), empty texts dropped
RECURSIVE Cleaned(_)
Cleaned(value_tokens) ==
    IF value_tokens = <<>> THEN <<>>
    ELSE LET txt == Strip(LStripChars(Strip(Head(value_tokens).text), {":"}))
         IN  IF txt # <<>>
             THEN <<[text |-> txt, bbox |-> Head(value_tokens).bbox]>>
                  \o Cleaned(Tail(value_tokens))
             ELSE Cleaned(Tail(value_tokens))

\* the candidate built at lines 152-171 from the cleaned value tokens
AnchorCandidate(tokens, page_no, i, a, match_score, matched_span, cleaned) ==
    LET raw_value == JoinSpace([k \in 1..Len(cleaned) |-> cleaned[k].text])
        best_bb == BestBBox([k \in 1..Len(cleaned) |-> cleaned[k].bbox])
        ctx_start == Max2(0, i - 2)
        ctx_tokens == Slice(tokens, ctx_start, i + matched_span + Len(cleaned))
        snippet == JoinSpace([k \in 1..Len(ctx_tokens) |-> ctx_tokens[k].text])
    IN  [cand |-> FieldCandidate(raw_value, raw_value,
                                 AnchorConfidence(match_score), "anchor",
                                 SourceLocation(page_no, best_bb), snippet),
         from |-> [method |-> "anchor", page |-> page_no, i |-> i, a |-> a,
                   span |-> matched_span,
                   values |-> [k \in 1..Len(cleaned) |-> cleaned[k].bbox.x0]]]

\* lines 132-171: the value tokens after a matched anchor, and the candidate
AnchorValue(tokens, page_no, i, a, match_score, matched_span, cleaned) ==
    IF cleaned = <<>> THEN <<>>
    ELSE <<AnchorCandidate(tokens, page_no, i, a, match_score, matched_span, cleaned)>>

\* lines 130-150: the threshold, the window and the cleaning
AnchorMatched(tokens, page_no, i, a, field_config, m) ==
    IF ~MeetsThreshold(m[1]) THEN <<>>
    ELSE AnchorValue(tokens, page_no, i, a, m[1], m[2],
                     Cleaned(TokenTextNear(tokens, i + m[2] - 1,
                                           field_config.search_window, page_no)))

\* one pass of the innermost loop body: no or one candidate, with its place
AnchorEmission(tokens, page_no, i, a, field_config) ==
    AnchorMatched(tokens, page_no, i, a, field_config,
                  AnchorMatch(tokens, i, field_config.anchors[a]))

\* the loops over pages, tokens and anchors, in that nesting
AnchorEmissions(document, field_config) ==
    Concat([p \in 1..Len(document) |->
        Concat([i1 \in 1..Len(document[p].tokens) |->
            Concat([a \in 1..Len(field_config.anchors) |->
                AnchorEmission(document[p].tokens, document[p].page_no,
                               i1 - 1, a, field_config)])])])

AnchorExtract(document, field_config) ==
    LET es == AnchorEmissions(document, field_config)
    IN  [k \in 1..Len(es) |-> es[k].cand]

-----------------------------------------------------------------------------
(* regex_extract and _find_token_bbox.  The regular expression engine is   *)
(* not modelled: finditer holds, for the patterns in order, the matches    *)
(* found in doc.full_text, each [g0, g1, ctx] with g1.kind one of          *)
(*   "nogroup"  the pattern defines no group 1 (group(1) raises IndexError)*)
(*   "unset"    group 1 took no part in the match (group(1) is None)       *)
(*   "text"     group 1 matched g1.text                                    *)
(* and ctx the 40 characters of full_text around the match.                *)

FirstWordStrip == {"$", ",", ".", ":"}

WordStrip == {"$", ",", "."}

\* the inner loop over words[1:]: <<all_match, match_bboxes>>
RECURSIVE RestMatch(_, _, _, _, _)
RestMatch(tokens, i, words, j, match_bboxes) ==
    IF j >= Len(words) THEN <<TRUE, match_bboxes>>
    ELSE IF i + j < Len(tokens)
         THEN IF StripChars(Lower(At(tokens, i + j).text), WordStrip)
                    = StripChars(words[j + 1], WordStrip)
              THEN RestMatch(tokens, i, words, j + 1,
                             Append(match_bboxes, At(tokens, i + j).bbox))
              ELSE <<FALSE, match_bboxes>>
         ELSE RestMatch(tokens, i, words, j + 1, match_bboxes)

\* the loop over the tokens of one page, from token i on
RECURSIVE FindOnPage(_, _, _, _)
FindOnPage(page, i, words, found_none) ==
    IF i >= Len(page.tokens) THEN found_none
    ELSE LET tok == At(page.tokens, i)
         IN  IF StripChars(Lower(tok.text), FirstWordStrip)
                    = StripChars(words[1], WordStrip)
             THEN LET r == RestMatch(page.tokens, i, words, 1, <<tok.bbox>>)
                  IN  IF r[1]
                      THEN [found |-> TRUE, bbox |-> BestBBox(r[2]),
                            page |-> page.page_no]
                      ELSE FindOnPage(page, i + 1, words, found_none)
             ELSE FindOnPage(page, i + 1, words, found_none)

RECURSIVE FindInPages(_, _, _)
FindInPages(document, p, words) ==
    LET none == [found |-> FALSE, bbox |-> NoBBox, page |-> 0]
    IN  IF p > Len(document) THEN none
        ELSE LET r == FindOnPage(document[p], 0, words, none)
             IN  IF r.found THEN r ELSE FindInPages(document, p + 1, words)

FindTokenBBox(document, text) ==
    LET words == Split(Lower(text))
    IN  IF words = <<>> THEN [found |-> FALSE, bbox |-> NoBBox, page |-> 0]
        ELSE FindInPages(document, 1, words)

\* RegexEmission with regex candidates starting at the anchor weight
RegexEmissionAnchorWeight(document, matches, k) ==
    LET match == matches[k]
    IN  IF match.g1.kind = "unset" THEN [kind |-> "raise"]
        ELSE
        LET raw_value == IF match.g1.kind = "text"
                         THEN Strip(match.g1.text) ELSE Strip(match.g0)
        IN  IF raw_value = <<>> THEN [kind |-> "skip"]
            ELSE LET at == FindTokenBBox(document, raw_value)
                 IN  [kind |-> "emit",
                      cand |-> FieldCandidate(raw_value, raw_value, WeightAnchor, "regex",
                                              SourceLocation(at.page, at.bbox),
                                              Strip(match.ctx)),
                      from |-> [method |-> "regex", page |-> at.page, i |-> k,
                                a |-> 0, span |-> 0, values |-> <<>>]]

\* the body of the loop over matches: "raise", "skip" or the candidate
RegexEmission(document, matches, k) ==
    LET match == matches[k]
    IN  IF match.g1.kind = "unset" THEN [kind |-> "raise"]
        ELSE
        LET raw_value == IF match.g1.kind = "text"
                         THEN Strip(match.g1.text) ELSE Strip(match.g0)
        IN  IF raw_value = <<>> THEN [kind |-> "skip"]
            ELSE LET at == FindTokenBBox(document, raw_value)
                 IN  [kind |-> "emit",
                      cand |-> FieldCandidate(raw_value, raw_value, WeightRegex, "regex",
                                              SourceLocation(at.page, at.bbox),
                                              Strip(match.ctx)),
                      from |-> [method |-> "regex", page |-> at.page, i |-> k,
                                a |-> 0, span |-> 0, values |-> <<>>]]

\* the loops over patterns and matches: the emissions so far and whether one raised
RECURSIVE RegexEmissions(_, _, _)
RegexEmissions(document, matches, k) ==
    IF k > Len(matches) THEN [raised |-> FALSE, es |-> <<>>]
    ELSE LET e == RegexEmission(document, matches, k)
         IN  IF e.kind = "raise" THEN [raised |-> TRUE, es |-> <<>>]
             ELSE LET rest == RegexEmissions(document, matches, k + 1)
                  IN  IF e.kind = "skip" THEN rest
                      ELSE [raised |-> rest.raised, es |-> <<e>> \o rest.es]

RegexExtract(document, matches) ==
    LET r == RegexEmissions(document, matches, 1)
    IN  [raised |-> r.raised, candidates |-> [k \in 1..Len(r.es) |-> r.es[k].cand]]

-----------------------------------------------------------------------------
(* normalize_value and validate_value (app/validators), the functions the  *)
(* pipeline and the tests pass as normalizer_fn and validator_fn.  A float *)
(* is the sequence <<"float">> \o digits; the value texts of the model     *)
(* hold no ".", "," or exponent, so a text parses as a number iff, with    *)
(* "$" and whitespace removed, it is a non-empty run of digits.            *)

Digits == {"1", "7"}

IsFloat(value) == value # <<>> /\ Head(value) = "float"

\* str(value)
Str(value) == IF IsFloat(value) THEN Tail(value) \o <<".", "0">> ELSE value

RECURSIVE RemoveChars(_, _)
RemoveChars(s, cs) ==
    IF s = <<>> THEN <<>>
    ELSE IF Head(s) \in cs THEN RemoveChars(Tail(s), cs)
         ELSE <<Head(s)>> \o RemoveChars(Tail(s), cs)

IsNumberText(s) == s # <<>> /\ \A k \in 1..Len(s) : s[k] \in Digits

\* _parse_money: [ok, value]; ok = FALSE is NormalizationError
ParseMoney(raw) ==
    LET cleaned == RemoveChars(Strip(raw), {"$"} \cup Whitespace)
    IN  IF IsNumberText(cleaned)
        THEN [ok |-> TRUE, value |-> <<"float">> \o cleaned]
        ELSE [ok |-> FALSE, value |-> raw]

\* the loop of normalize_value from normalizer k on
RECURSIVE NormalizeFrom(_, _, _)
NormalizeFrom(value, normalizers, k) ==
    IF k > Len(normalizers) THEN [ok |-> TRUE, value |-> value]
    ELSE LET norm == normalizers[k]
         IN  IF norm = "strip"
             THEN NormalizeFrom(Strip(Str(value)), normalizers, k + 1)
             ELSE IF norm = "lower"
             THEN NormalizeFrom(Lower(Str(value)), normalizers, k + 1)
             ELSE IF norm = "parse_money"
             THEN LET r == ParseMoney(Str(value))
                  IN  IF r.ok THEN NormalizeFrom(r.value, normalizers, k + 1)
                      ELSE [ok |-> FALSE, value |-> value]
             ELSE NormalizeFrom(value, normalizers, k + 1)

NormalizeValue(raw, field_config) == NormalizeFrom(raw, field_config.normalizers, 1)

\* _apply_validator: TRUE iff it returns an error string
ApplyValidator(v, value) ==
    IF v.name = "min_length" THEN Len(Str(value)) < v.arg
    ELSE IF v.name = "max_length" THEN Len(Str(value)) > v.arg
    ELSE IF v.name = "positive_number"
         THEN ~IsFloat(value) /\ ~IsNumberText(Strip(value))
    ELSE IF v.name = "non_empty" THEN Strip(Str(value)) = <<>>
    ELSE FALSE

\* the loop of validate_value from validator k on; the empty mapping {} as a
\* validator makes next(iter(...)) raise StopIteration
RECURSIVE ValidateFrom(_, _, _)
ValidateFrom(value, validators, k) ==
    IF k > Len(validators) THEN [raised |-> FALSE, errors |-> <<>>]
    ELSE IF validators[k].name = "{}" THEN [raised |-> TRUE, errors |-> <<>>]
    ELSE LET rest == ValidateFrom(value, validators, k + 1)
         IN  IF ApplyValidator(validators[k], value)
             THEN [raised |-> rest.raised,
                   errors |-> IF rest.raised THEN <<>>
                              ELSE <<validators[k].name>> \o rest.errors]
             ELSE rest

ValidateValue(value, field_config) ==
    IF value = None
    THEN [raised |-> FALSE,
          errors |-> IF field_config.required THEN <<"required">> ELSE <<>>]
    ELSE ValidateFrom(value, field_config.validators, 1)

-----------------------------------------------------------------------------
(* score_candidates                                                        *)

\* ScoreOne with the score also clamped at 0 from below
ScoreOneFloor(c, field_config) ==
    LET n == NormalizeValue(c.raw_value, field_config)
        norm_val == IF n.ok THEN n.value ELSE c.raw_value
        v == ValidateValue(norm_val, field_config)
        score == c.confidence
                 + (IF n.ok THEN NormBonus ELSE 0)
                 + (IF v.raised THEN 0
                    ELSE IF v.errors = <<>> THEN ValidBonus
                    ELSE 0 - ErrorPenalty * Len(v.errors))
    IN  [c EXCEPT !.value = IF n.ok THEN norm_val ELSE c.value,
                  !.confidence = Max2(0, Min2(score, ScoreCap))]

\* ScoreOne leaving out validation when normalization has failed
ScoreOneSkipsValidation(c, field_config) ==
    LET n == NormalizeValue(c.raw_value, field_config)
        v == ValidateValue(n.value, field_config)
        score == c.confidence
                 + (IF v.raised THEN 0
                    ELSE IF v.errors = <<>> THEN ValidBonus
                    ELSE 0 - ErrorPenalty * Len(v.errors))
    IN  IF n.ok THEN [c EXCEPT !.value = n.value,
                               !.confidence = Min2(score + NormBonus, ScoreCap)]
        ELSE c

\* one pass of the scoring loop: the candidate appended to scored
ScoreOne(c, field_config) ==
    LET n == NormalizeValue(c.raw_value, field_config)
        norm_val == IF n.ok THEN n.value ELSE c.raw_value
        v == ValidateValue(norm_val, field_config)
        score == c.confidence
                 + (IF n.ok THEN NormBonus ELSE 0)
                 + (IF v.raised THEN 0
                    ELSE IF v.errors = <<>> THEN ValidBonus
                    ELSE 0 - ErrorPenalty * Len(v.errors))
    IN  [c EXCEPT !.value = IF n.ok THEN norm_val ELSE c.value,
                  !.confidence = Min2(score, ScoreCap)]

ScoreLoop(candidates, field_config) ==
    [k \in 1..Len(candidates) |-> ScoreOne(candidates[k], field_config)]

\* HasConflict comparing every pair of candidates, not only later ones with the first
HasConflictAnyPair(sc) ==
    /\ Len(sc) > 1
    /\ \E j \in 1..Len(sc) : \E k \in (j + 1)..Len(sc) :
          sc[k].value # sc[j].value /\ sc[k].confidence > ConflictFloor

\* the condition under which the dedup block penalizes
HasConflict(sc) ==
    /\ Len(sc) > 1
    /\ \E k \in 2..Len(sc) :
          sc[k].value # sc[1].value /\ sc[k].confidence > ConflictFloor

\* Penalize with one penalty for every disagreeing candidate
PenalizePerConflict(sc) ==
    LET conflicts == {k \in 2..Len(sc) :
                        sc[k].value # sc[1].value /\ sc[k].confidence > ConflictFloor}
    IN  [k \in 1..Len(sc) |->
            [sc[k] EXCEPT !.confidence = @ - ConflictPenalty * Cardinality(conflicts)]]

Penalize(sc) ==
    IF HasConflict(sc)
    THEN [k \in 1..Len(sc) |-> [sc[k] EXCEPT !.confidence = @ - ConflictPenalty]]
    ELSE sc

\* SortOrder with equal confidences taken in reverse input order
SortOrderUnstable(sc) ==
    LET n == Len(sc)
        rank(k) == 1 + Cardinality({j \in 1..n :
                        \/ sc[j].confidence > sc[k].confidence
                        \/ sc[j].confidence = sc[k].confidence /\ j > k})
    IN  [r \in 1..n |-> CHOOSE k \in 1..n : rank(k) = r]

\* list.sort(key=confidence, reverse=True): order[r] is the input index of rank r
SortOrder(sc) ==
    LET n == Len(sc)
        rank(k) == 1 + Cardinality({j \in 1..n :
                        \/ sc[j].confidence > sc[k].confidence
                        \/ sc[j].confidence = sc[k].confidence /\ j < k})
    IN  [r \in 1..n |-> CHOOSE k \in 1..n : rank(k) = r]

SortByConfidence(sc) ==
    LET order == SortOrder(sc) IN [r \in 1..Len(sc) |-> sc[order[r]]]

ScoreCandidates(candidates, field_config) ==
    SortByConfidence(Penalize(ScoreLoop(candidates, field_config)))

-----------------------------------------------------------------------------
(* extract_field, from the scored list on                                  *)

\* StatusOf with both thresholds exclusive
StatusOfStrict(confidence) ==
    IF confidence > VerifiedMin THEN "verified"
    ELSE IF confidence > ReviewMin THEN "needs_review"
    ELSE "missing"

StatusOf(confidence) ==
    IF confidence >= VerifiedMin THEN "verified"
    ELSE IF confidence >= ReviewMin THEN "needs_review"
    ELSE "missing"

\* scored[1:], without the limit of four
AlternativesAll(sc) == Slice(sc, 1, Len(sc))

\* scored[1:5]
Alternatives(sc) == Slice(sc, 1, 1 + MaxAlternatives)

BuildResult(sc) ==
    LET best == sc[1]
    IN  [value |-> best.value, raw_value |-> best.raw_value,
         confidence |-> best.confidence, status |-> StatusOf(best.confidence),
         method |-> best.method, source |-> best.source, evidence |-> best.evidence,
         alternatives |-> Alternatives(sc), validation_errors |-> <<>>]

-----------------------------------------------------------------------------
(* LLM fallback gate (app/fallback/gate.py)                                *)

DefaultThreshold == 5000
LlmConfidence == 6500

\* Settings: the two attributes the gate reads
Settings(enabled, threshold) ==
    [llm_fallback_enabled |-> enabled, llm_confidence_threshold |-> threshold]

\* should_use_llm without the comparison of the confidence with the threshold
ShouldUseLlmRequiredOnly(field_result, field_config, s) ==
    IF ~s.llm_fallback_enabled THEN FALSE
    ELSE IF ~field_config.fallback_allowed THEN FALSE
    ELSE IF field_result.status = "missing" /\ field_config.required THEN TRUE
    ELSE FALSE

\* should_use_llm with the threshold itself counted as below the threshold
ShouldUseLlmAtMost(field_result, field_config, s) ==
    IF ~s.llm_fallback_enabled THEN FALSE
    ELSE IF ~field_config.fallback_allowed THEN FALSE
    ELSE IF field_result.status = "missing" /\ field_config.required THEN TRUE
    ELSE IF field_result.confidence <= s.llm_confidence_threshold THEN TRUE
    ELSE FALSE

\* should_use_llm(field_result, field_config), s = get_settings()
ShouldUseLlm(field_result, field_config, s) ==
    IF ~s.llm_fallback_enabled THEN FALSE
    ELSE IF ~field_config.fallback_allowed THEN FALSE
    ELSE IF field_result.status = "missing" /\ field_config.required THEN TRUE
    ELSE IF field_result.confidence < s.llm_confidence_threshold THEN TRUE
    ELSE FALSE

\* what provider.extract(prompt) returns: None, a JSON object (a function from
\* its keys to their values) or another JSON value; _parse_llm_json returns
\* whatever json.loads made of the reply
Reply(type, items) == [type |-> type, items |-> items]

\* bool(result)
Truthy(reply) ==
    \/ reply.type = "int"
    \/ reply.type = "dict" /\ DOMAIN reply.items # {}

\* dict.get(key, default)
Get(items, key, default) == IF key \in DOMAIN items THEN items[key] ELSE default

\* the provider llm_extract_field works with: the one passed, else get_llm_provider()
ProviderOf(provider, s) ==
    IF provider.passed THEN "provider"
    ELSE IF s.llm_fallback_enabled THEN "provider" ELSE "None"

\* the FieldResult built from the reply's value and evidence
LlmResult(field_result, llm_value, llm_evidence) ==
    [value |-> llm_value, raw_value |-> Str(llm_value),
     confidence |-> LlmConfidence, status |-> "needs_review", method |-> "llm",
     source |-> MissingResult.source, evidence |-> llm_evidence,
     alternatives |-> field_result.alternatives,
     validation_errors |-> field_result.validation_errors]

\* from `llm_value = result["value"]` on: Evidence(snippet=...) accepts a str only
LlmReplace(field_result, llm_value, llm_evidence) ==
    IF llm_evidence = None THEN [raised |-> TRUE, result |-> field_result]
    ELSE [raised |-> FALSE, result |-> LlmResult(field_result, llm_value, llm_evidence)]

\* from `result = provider.extract(prompt)` on: a reply that is not an object
\* has no get()
LlmReplied(field_result, reply) ==
    IF ~Truthy(reply) THEN [raised |-> FALSE, result |-> field_result]
    ELSE IF reply.type # "dict" THEN [raised |-> TRUE, result |-> field_result]
    ELSE IF Get(reply.items, "value", None) = None
         THEN [raised |-> FALSE, result |-> field_result]
    ELSE LlmReplace(field_result, reply.items["value"],
                    Get(reply.items, "evidence", Str(reply.items["value"])))

\* llm_extract_field(field_result, field_config, doc, provider): [raised, result]
LlmExtractField(field_result, provider, s) ==
    IF ProviderOf(provider, s) = "None" THEN [raised |-> FALSE, result |-> field_result]
    ELSE LlmReplied(field_result, provider.reply)

-----------------------------------------------------------------------------
(* Document-level validation (app/validators/rules.py)                     *)

\* dict[key] = value
Put(d, key, value) == [n \in DOMAIN d \cup {key} |-> IF n = key THEN value ELSE d[n]]

DigitValue(c) == IF c = "1" THEN 1 ELSE 7

\* the number a text of digits denotes
RECURSIVE NumberOfDigits(_)
NumberOfDigits(s) ==
    IF s = <<>> THEN 0
    ELSE 10 * NumberOfDigits(SubSeq(s, 1, Len(s) - 1)) + DigitValue(s[Len(s)])

\* the number a float denotes; a "-" ahead of the digits is its sign
NumberOf(value) ==
    IF value[2] = "-" THEN 0 - NumberOfDigits(SubSeq(value, 3, Len(value)))
    ELSE NumberOfDigits(Tail(value))

\* float(text) succeeds
ParsesAsFloat(text) ==
    LET s == Strip(text)
    IN  \/ IsNumberText(s)
        \/ s # <<>> /\ Head(s) = "-" /\ IsNumberText(Tail(s))

\* vals[fname] = float(fr.value), or fr.value itself when float() raises
CrossValue(value) ==
    IF IsFloat(value) THEN value
    ELSE IF ParsesAsFloat(value) THEN <<"float">> \o Strip(value)
    ELSE value

\* every named field has a result with a non-null value
AllPresent(fields, cv) ==
    \A k \in 1..Len(cv.fields) :
        cv.fields[k] \in DOMAIN fields /\ fields[cv.fields[k]].value # None

\* the characters the rule may consist of once the values are filled in
SafeChars == Digits \cup {"0", ".", " ", "\"", "<", ">", "=", "!"}

\* a field name of the rule replaced by str(val), or by the quoted text
Substituted(val) ==
    IF IsFloat(val) THEN Str(val) ELSE <<"\"">> \o val \o <<"\"">>

IsSafe(text) == \A k \in 1..Len(text) : text[k] \in SafeChars

\* eval of `x op y` for two numbers
Compare(op, x, y) ==
    IF op = ">=" THEN x >= y
    ELSE IF op = "<=" THEN x <= y
    ELSE IF op = ">" THEN x > y
    ELSE IF op = "<" THEN x < y
    ELSE IF op = "==" THEN x = y
    ELSE x # y

\* eval of the rule once it has passed the check of its characters: "raise"
\* is the TypeError of ordering a str and a float.  (A text that passes the
\* check and is not a number holds digits, dots and blanks only; ordering two
\* such texts is not modelled, the inputs hold none.)
Eval(op, x, y) ==
    IF IsFloat(x) /\ IsFloat(y) THEN Compare(op, NumberOf(x), NumberOf(y))
    ELSE IF op = "==" THEN x = y
    ELSE IF op = "!=" THEN x # y
    ELSE "raise"

\* _eval_rule for a rule `left op right`: TRUE, FALSE or "raise"
EvalRule(cv, vals) ==
    LET x == vals[cv.rule.left]
        y == vals[cv.rule.right]
    IN  IF ~IsSafe(Substituted(x) \o Substituted(y)) THEN TRUE
        ELSE Eval(cv.rule.op, x, y)

\* one rule of run_cross_field_validation: the descriptions it appends
CrossErrorsOf(fields, cv) ==
    IF ~AllPresent(fields, cv) THEN <<>>
    ELSE IF EvalRule(cv, [n \in DOMAIN fields |-> CrossValue(fields[n].value)]) = FALSE
         THEN <<cv.description>>
    ELSE <<>>

RECURSIVE RunCrossFrom(_, _, _)
RunCrossFrom(fields, cvs, k) ==
    IF k > Len(cvs) THEN <<>>
    ELSE CrossErrorsOf(fields, cvs[k]) \o RunCrossFrom(fields, cvs, k + 1)

\* run_cross_field_validation(fields, doc_config)
RunCrossFieldValidation(fields, config) ==
    RunCrossFrom(fields, config.cross_field_validations, 1)

\* RequiredMissingFrom listing only the required fields that have no result
RECURSIVE RequiredMissingAbsentOnly(_, _, _)
RequiredMissingAbsentOnly(fields, fcs, k) ==
    IF k > Len(fcs) THEN <<>>
    ELSE (IF fcs[k].required /\ fcs[k].name \notin DOMAIN fields
          THEN <<fcs[k].name>> ELSE <<>>)
         \o RequiredMissingAbsentOnly(fields, fcs, k + 1)

\* required_missing: the loop over doc_config.fields from field k on
RECURSIVE RequiredMissingFrom(_, _, _)
RequiredMissingFrom(fields, fcs, k) ==
    IF k > Len(fcs) THEN <<>>
    ELSE (IF /\ fcs[k].required
             /\ \/ fcs[k].name \notin DOMAIN fields
                \/ fields[fcs[k].name].status = "missing"
          THEN <<fcs[k].name>> ELSE <<>>)
         \o RequiredMissingFrom(fields, fcs, k + 1)

\* sum(f.confidence for f in verified_fields)
RECURSIVE SumConfidence(_, _)
SumConfidence(fields, names) ==
    IF names = {} THEN 0
    ELSE LET n == CHOOSE m \in names : TRUE
         IN  fields[n].confidence + SumConfidence(fields, names \ {n})

\* round(x, 3) in units of 1/10000
Round3(x) == ((x + 5) \div 10) * 10

OverallConfidence(fields, verified, present) ==
    IF present = {} THEN 0
    ELSE Round3(SumConfidence(fields, verified) \div Max2(Cardinality(present), 1))

\* compute_validation_summary(fields, doc_config)
ComputeValidationSummary(fields, config) ==
    [required_present |-> RequiredMissingFrom(fields, config.fields, 1) = <<>>,
     required_missing |-> RequiredMissingFrom(fields, config.fields, 1),
     cross_field_errors |-> RunCrossFieldValidation(fields, config),
     overall_confidence |->
         OverallConfidence(fields,
                           {n \in DOMAIN fields : fields[n].status = "verified"},
                           {n \in DOMAIN fields : fields[n].status # "missing"})]

-----------------------------------------------------------------------------
(* run_extraction_pipeline (app/pipeline/orchestrator.py), from the        *)
(* deterministic extraction on                                             *)

\* extract_field from `if not all_candidates` on
ExtractScored(candidates, field_config) ==
    IF candidates = <<>> THEN MissingResult
    ELSE BuildResult(ScoreCandidates(candidates, field_config))

\* extract_field(doc, field_config, normalize_value, validate_value): [raised, result]
\* extract_field once regex_extract has returned or raised
ExtractWith(document, field_config, r) ==
    IF r.raised THEN [raised |-> TRUE, result |-> MissingResult]
    ELSE [raised |-> FALSE,
          result |-> ExtractScored(AnchorExtract(document, field_config) \o r.candidates,
                                   field_config)]

ExtractField(document, field_config) ==
    ExtractWith(document, field_config, RegexExtract(document, field_config.patterns))

\* errors = validate_value(fr.value, fconfig); fr.validation_errors = errors
WithValidationErrors(fr, v) ==
    IF v.raised THEN [raised |-> TRUE, result |-> fr]
    ELSE [raised |-> FALSE, result |-> [fr EXCEPT !.validation_errors = v.errors]]

\* the body of the extraction loop after extract_field has returned fr
Validated(fr, field_config) ==
    IF fr.value = None THEN [raised |-> FALSE, result |-> fr]
    ELSE WithValidationErrors(fr, ValidateValue(fr.value, field_config))

\* the body of the extraction loop for one field: [raised, result]
AfterExtractField(e, field_config) ==
    IF e.raised THEN e ELSE Validated(e.result, field_config)

ExtractOne(document, field_config) ==
    AfterExtractField(ExtractField(document, field_config), field_config)

\* the LLM fallback loop from field k on: [raised, fields]
RECURSIVE LlmLoop(_, _, _, _, _)
\* extracted_fields[fname] = fr2, and on to the next field
LlmStore(fields, fcs, k, provider, s, r) ==
    IF r.raised THEN [raised |-> TRUE, fields |-> fields]
    ELSE LlmLoop(Put(fields, fcs[k].name, r.result), fcs, k + 1, provider, s)

LlmLoop(fields, fcs, k, provider, s) ==
    IF k > Len(fcs) THEN [raised |-> FALSE, fields |-> fields]
    ELSE IF ~ShouldUseLlm(fields[fcs[k].name], fcs[k], s)
         THEN LlmLoop(fields, fcs, k + 1, provider, s)
    ELSE LlmStore(fields, fcs, k, provider, s,
                  LlmExtractField(fields[fcs[k].name], provider, s))

\* step 5 of the pipeline: [raised, fields]
LlmFallback(fields, config, provider, s) ==
    IF ~s.llm_fallback_enabled THEN [raised |-> FALSE, fields |-> fields]
    ELSE LlmLoop(fields, config.fields, 1, provider, s)

-----------------------------------------------------------------------------
(* Inputs the model draws from.                                            *)

W_Total == <<"T", "o", "t", "a", "l", ":">>
W_totel == <<"t", "o", "t", "e", "l">>
W_tot == <<"t", "o", "t">>
W_due == <<"D", "u", "e">>
W_7 == <<"7">>
W_d7 == <<"$", "7">>
W_c7 == <<":", "7">>
W_colon == <<":">>

A_Total == <<"T", "o", "t", "a", "l">>
A_TotalDue == <<"T", "o", "t", "a", "l", " ", "D", "u", "e">>

AnchorWords == {W_Total, W_totel, W_tot, W_due, W_7}
AnchorLists == {<<A_Total>>, <<A_TotalDue>>, <<A_Total, A_TotalDue>>}

WindowWords == {W_Total, W_7, W_c7, W_colon}
LineIds == {0, 1, 2}
SearchWindows == {"same_line_or_next", "same_line_right", "next_3_lines"}

PipeWords == {W_Total, W_7}

V_min3 == [name |-> "min_length", arg |-> 3]
V_max1 == [name |-> "max_length", arg |-> 1]
V_pos == [name |-> "positive_number", arg |-> 0]
V_empty == [name |-> "{}", arg |-> 0]

ValidatorLists == {<<>>, <<V_pos>>, <<V_max1, V_pos, V_min3>>, <<V_empty>>}

ScoreRaws == {W_7, W_d7, W_tot}
ScoreConfs == {0, WeightRegex, 9000}

M_group == [g0 |-> W_d7, g1 |-> [kind |-> "text", text |-> W_7], ctx |-> W_d7]
M_whole == [g0 |-> W_tot, g1 |-> [kind |-> "nogroup", text |-> <<>>], ctx |-> W_tot]
M_unset == [g0 |-> W_7, g1 |-> [kind |-> "unset", text |-> <<>>], ctx |-> W_7]

\* FieldConfig with the attributes the orchestrator and the gate read as well
\* patterns holds, for the field's patterns in order, the matches they find in
\* doc.full_text
NamedFieldConfig(name, required, fallback_allowed, anchors, patterns, normalizers, validators) ==
    [name |-> name, required |-> required, fallback_allowed |-> fallback_allowed,
     anchors |-> anchors, patterns |-> patterns,
     search_window |-> "same_line_or_next",
     normalizers |-> normalizers, validators |-> validators]

FieldConfig(anchors, search_window, normalizers, validators) ==
    [anchors |-> anchors, search_window |-> search_window,
     normalizers |-> normalizers, validators |-> validators, required |-> TRUE]

\* a page of tokens with the given texts and line ids
PageOf(page_no, texts, lines) ==
    Page(page_no, [k \in 1..Len(texts) |-> Token(texts[k], lines[k], k - 1, page_no)])

\* extract_field has not returned: result holds no FieldResult yet
NoResult == [MissingResult EXCEPT !.status = "not_returned"]

\* compute_validation_summary has not returned
NoSummary ==
    [required_present |-> FALSE, required_missing |-> <<>>,
     cross_field_errors |-> <<>>, overall_confidence |-> -1]

\* DocumentConfig(fields, cross_field_validations)
DocumentConfig(fields, cross_field_validations) ==
    [fields |-> fields, cross_field_validations |-> cross_field_validations]

\* the provider argument and what its extract() returns
Provider(passed, reply) == [passed |-> passed, reply |-> reply]

\* no pipeline, gate or summary call is being made
\* no job has been submitted
NoResponse == [status |-> "none", result |-> FALSE]

IdleJob ==
    /\ job_status = "none"
    /\ retries = 0
    /\ artifacts = 0
    /\ field_rows = 0
    /\ pipeline_runs = 0
    /\ response = NoResponse

IdlePipeline ==
    /\ IdleJob
    /\ settings = Settings(FALSE, DefaultThreshold)
    /\ llm_provider = Provider(FALSE, Reply("None", <<>>))
    /\ use_llm = "not_called"
    /\ fr2 = NoResult
    /\ doc_config = DocumentConfig(<<>>, <<>>)
    /\ extracted_fields = <<>>
    /\ summary = NoSummary
    /\ errors = <<>>

Idle ==
    /\ IdlePipeline
    /\ adjusted = <<>>
    /\ scored = <<>>
    /\ result = NoResult
    /\ origin = <<>>
    /\ norm_calls = 0
    /\ val_calls = 0

-----------------------------------------------------------------------------
(* Specification SpecAnchor: anchor_extract called on documents of two     *)
(* pages, every token on line 0.                                           *)

InitAnchor ==
    /\ \E texts \in SeqsUpTo(AnchorWords, MaxTokens) :
       \E cut \in 0..Len(texts) :
          doc = <<PageOf(0, SubSeq(texts, 1, cut), [k \in 1..cut |-> 0]),
                  PageOf(1, SubSeq(texts, cut + 1, Len(texts)),
                         [k \in 1..(Len(texts) - cut) |-> 0])>>
    /\ \E anchors \in AnchorLists :
          fc = FieldConfig(anchors, "same_line_right", <<>>, <<>>)
    /\ finditer = <<>>
    /\ all_candidates = <<>>
    /\ pc = "call_anchor_extract"
    /\ Idle

\* candidates = anchor_extract(doc, field_config)
CallAnchorExtract ==
    /\ pc = "call_anchor_extract"
    /\ all_candidates' = AnchorExtract(doc, fc)
    /\ origin' = LET es == AnchorEmissions(doc, fc)
                 IN  [k \in 1..Len(es) |-> es[k].from]
    /\ pc' = "returned"
    /\ UNCHANGED <<pipeline_vars, job_vars>>
    /\ UNCHANGED <<doc, fc, finditer, adjusted, scored, result, norm_calls, val_calls>>

SpecAnchor == InitAnchor /\ [][CallAnchorExtract]_vars

-----------------------------------------------------------------------------
(* Specification SpecWindow: anchor_extract called on one page whose       *)
(* tokens carry arbitrary line ids, under each search window.              *)

InitWindow ==
    /\ \E texts \in SeqsUpTo(WindowWords, MaxWindowTokens) :
       \E lines \in [1..Len(texts) -> LineIds] :
          doc = <<PageOf(0, texts, lines)>>
    /\ \E w \in SearchWindows : fc = FieldConfig(<<A_Total>>, w, <<>>, <<>>)
    /\ finditer = <<>>
    /\ all_candidates = <<>>
    /\ pc = "call_anchor_extract"
    /\ Idle

SpecWindow == InitWindow /\ [][CallAnchorExtract]_vars

-----------------------------------------------------------------------------
(* Specification SpecScore: score_candidates called on a list of           *)
(* candidates, anchor candidates first as extract_field passes them, with  *)
(* normalize_value and validate_value.                                     *)

InitScore ==
    /\ \E raws \in SeqsUpTo(ScoreRaws, MaxCands) :
       \E confs \in [1..Len(raws) -> ScoreConfs] :
       \E anchors \in 0..Len(raws) :
          all_candidates =
              [k \in 1..Len(raws) |->
                  FieldCandidate(raws[k], raws[k], confs[k],
                                 IF k <= anchors THEN "anchor" ELSE "regex",
                                 SourceLocation(0, NoBBox), raws[k])]
    /\ \E ns \in {<<>>, <<"parse_money">>}, vs \in ValidatorLists :
          fc = FieldConfig(<<>>, "same_line_or_next", ns, vs)
    /\ doc = <<>>
    /\ finditer = <<>>
    /\ pc = "call_score_candidates"
    /\ Idle

\* CallScoreCandidates writing the adjusted candidates back into the list it was given
CallScoreCandidatesInPlace ==
    /\ pc = "call_score_candidates"
    /\ adjusted' = ScoreLoop(all_candidates, fc)
    /\ scored' = ScoreCandidates(all_candidates, fc)
    /\ all_candidates' = ScoreLoop(all_candidates, fc)
    /\ norm_calls' = norm_calls + Len(all_candidates)
    /\ val_calls' = val_calls + Len(all_candidates)
    /\ pc' = "returned"
    /\ UNCHANGED <<pipeline_vars, job_vars>>
    /\ UNCHANGED <<doc, fc, finditer, result, origin>>

\* scored = score_candidates(candidates, field_config, normalize_value, validate_value)
CallScoreCandidates ==
    /\ pc = "call_score_candidates"
    /\ adjusted' = ScoreLoop(all_candidates, fc)
    /\ scored' = ScoreCandidates(all_candidates, fc)
    /\ norm_calls' = norm_calls + Len(all_candidates)
    /\ val_calls' = val_calls + Len(all_candidates)
    /\ pc' = "returned"
    /\ UNCHANGED <<pipeline_vars, job_vars>>
    /\ UNCHANGED <<doc, fc, finditer, all_candidates, result, origin>>

\* score_candidates called a second time with the same arguments
CallScoreCandidatesAgain ==
    /\ pc = "returned"
    /\ all_candidates # <<>>
    /\ adjusted' = ScoreLoop(all_candidates, fc)
    /\ scored' = ScoreCandidates(all_candidates, fc)
    /\ norm_calls' = norm_calls + Len(all_candidates)
    /\ val_calls' = val_calls + Len(all_candidates)
    /\ pc' = "returned_again"
    /\ UNCHANGED <<pipeline_vars, job_vars>>
    /\ UNCHANGED <<doc, fc, finditer, all_candidates, result, origin>>

SpecScore == InitScore /\ [][CallScoreCandidates]_vars

-----------------------------------------------------------------------------
(* Specification Spec: extract_field(doc, field_config, normalize_value,   *)
(* validate_value), statement by statement.  A match whose group 1 is      *)
(* unset ends regex_extract, so it is drawn as the last match only.        *)

Init ==
    /\ \E texts \in SeqsUpTo(PipeWords, MaxPipeTokens) :
          doc = <<PageOf(0, texts, [k \in 1..Len(texts) |-> 0])>>
    /\ \E ns \in {<<>>, <<"parse_money">>},
          vs \in {<<>>, <<V_max1, V_pos, V_min3>>, <<V_empty>>} :
          fc = FieldConfig(<<A_Total>>, "same_line_or_next", ns, vs)
    /\ \E ms \in SeqsUpTo({M_group, M_whole}, MaxMatches), last \in {<<>>, <<M_unset>>} :
          finditer = ms \o last
    /\ all_candidates = <<>>
    /\ pc = "start"
    /\ Idle

\* all_candidates.extend(anchor_extract(doc, field_config))
AnchorStep ==
    /\ pc = "start"
    /\ all_candidates' = all_candidates \o AnchorExtract(doc, fc)
    /\ origin' = LET es == AnchorEmissions(doc, fc)
                 IN  origin \o [k \in 1..Len(es) |-> es[k].from]
    /\ pc' = "anchored"
    /\ UNCHANGED <<pipeline_vars, job_vars>>
    /\ UNCHANGED <<doc, fc, finditer, adjusted, scored, result, norm_calls, val_calls>>

\* all_candidates.extend(regex_extract(doc, field_config))
RegexStep ==
    /\ pc = "anchored"
    /\ ~RegexExtract(doc, finditer).raised
    /\ all_candidates' = all_candidates \o RegexExtract(doc, finditer).candidates
    /\ origin' = LET es == RegexEmissions(doc, finditer, 1).es
                 IN  origin \o [k \in 1..Len(es) |-> es[k].from]
    /\ pc' = "extracted"
    /\ UNCHANGED <<pipeline_vars, job_vars>>
    /\ UNCHANGED <<doc, fc, finditer, adjusted, scored, result, norm_calls, val_calls>>

\* regex_extract raises (None has no strip) and extract_field with it
RegexRaise ==
    /\ pc = "anchored"
    /\ RegexExtract(doc, finditer).raised
    /\ pc' = "raised"
    /\ UNCHANGED <<pipeline_vars, job_vars>>
    /\ UNCHANGED <<doc, fc, finditer, all_candidates, adjusted, scored, result, origin,
                   norm_calls, val_calls>>

\* ReturnMissing with a status other than the default
ReturnMissingReview ==
    /\ pc = "extracted"
    /\ all_candidates = <<>>
    /\ result' = [MissingResult EXCEPT !.status = "needs_review"]
    /\ pc' = "done"
    /\ UNCHANGED <<pipeline_vars, job_vars>>
    /\ UNCHANGED <<doc, fc, finditer, all_candidates, adjusted, scored, origin,
                   norm_calls, val_calls>>

\* if not all_candidates: return FieldResult(status=MISSING)
ReturnMissing ==
    /\ pc = "extracted"
    /\ all_candidates = <<>>
    /\ result' = MissingResult
    /\ pc' = "done"
    /\ UNCHANGED <<pipeline_vars, job_vars>>
    /\ UNCHANGED <<doc, fc, finditer, all_candidates, adjusted, scored, origin,
                   norm_calls, val_calls>>

\* scored = score_candidates(all_candidates, ...)
ScoreStep ==
    /\ pc = "extracted"
    /\ all_candidates # <<>>
    /\ adjusted' = ScoreLoop(all_candidates, fc)
    /\ scored' = ScoreCandidates(all_candidates, fc)
    /\ norm_calls' = norm_calls + Len(all_candidates)
    /\ val_calls' = val_calls + Len(all_candidates)
    /\ pc' = "scored"
    /\ UNCHANGED <<pipeline_vars, job_vars>>
    /\ UNCHANGED <<doc, fc, finditer, all_candidates, result, origin>>

\* best = scored[0]; status by thresholds; return FieldResult(...)
ResultStep ==
    /\ pc = "scored"
    /\ result' = BuildResult(scored)
    /\ pc' = "done"
    /\ UNCHANGED <<pipeline_vars, job_vars>>
    /\ UNCHANGED <<doc, fc, finditer, all_candidates, adjusted, scored, origin,
                   norm_calls, val_calls>>

Next ==
    \/ AnchorStep
    \/ RegexStep
    \/ RegexRaise
    \/ ReturnMissing
    \/ ScoreStep
    \/ ResultStep

Spec == Init /\ [][Next]_vars

-----------------------------------------------------------------------------
(* Properties of extract_field, checked under Spec.                        *)

\* C1: when at least one candidate exists, the status of the result is
\* decided by the final confidence c of the top-ranked candidate: verified
\* iff c >= 0.85, needs_review iff 0.50 <= c < 0.85, missing iff c < 0.50,
\* and every result that is not missing has a confidence above 0.
C1_StatusFromTopConfidence ==
    (pc = "done" /\ all_candidates # <<>>) =>
        LET c == scored[1].confidence
        IN  /\ result.confidence = c
            /\ result.status \in {"verified", "needs_review", "missing"}
            /\ (result.status = "verified") <=> (c >= 8500)
            /\ (result.status = "needs_review") <=> (5000 <= c /\ c < 8500)
            /\ (result.status = "missing") <=> (c < 5000)
            /\ (result.status # "missing") => (result.confidence > 0)

\* a result whose top confidence is exactly 0.85, reported verified
C1_Witness ==
    /\ pc = "done"
    /\ all_candidates # <<>>
    /\ scored[1].confidence = 8500
    /\ result.status = "verified"

\* C2: every FieldResult returned by extract_field with status missing has
\* a null value and no method, and every result with a non-null value has
\* a method; results built from a winner below 0.50 included.
C2_MissingHasNoValue ==
    (pc = "done") =>
        /\ (result.status = "missing") =>
                (result.value = None /\ result.method = "none")
        /\ (result.value # None) => (result.method # "none")

\* C3: when anchor_extract and regex_extract together return no candidate,
\* extract_field returns a FieldResult with status missing, null value,
\* confidence 0.0, no method and no alternatives, and neither the normalize
\* nor the validate function has been called.
C3_NoCandidatesMissing ==
    (pc = "done" /\ all_candidates = <<>>) =>
        /\ result.status = "missing"
        /\ result.value = None
        /\ result.confidence = 0
        /\ result.method = "none"
        /\ result.alternatives = <<>>
        /\ scored = <<>>
        /\ norm_calls = 0
        /\ val_calls = 0

\* extract_field has returned on a document and patterns that give no candidate
C3_Witness ==
    /\ pc = "done"
    /\ all_candidates = <<>>
    /\ doc[1].tokens # <<>>
    /\ result.status = "missing"

\* C7: with n >= 1 scored candidates the result takes value, raw_value,
\* confidence, method, source and evidence from the top-ranked candidate,
\* and its alternatives are the candidates ranked 2nd to 5th in rank order:
\* min(4, n-1) of them, the winner not among them, none above the winner.
C7_ResultFromTopAndAlternatives ==
    (pc = "done" /\ scored # <<>>) =>
        LET n == Len(scored)
            alts == result.alternatives
        IN  /\ result.value = scored[1].value
            /\ result.raw_value = scored[1].raw_value
            /\ result.confidence = scored[1].confidence
            /\ result.method = scored[1].method
            /\ result.source = scored[1].source
            /\ result.evidence = scored[1].evidence
            /\ Len(alts) = IF n - 1 < 4 THEN n - 1 ELSE 4
            /\ \A k \in 1..Len(alts) :
                  /\ alts[k] = scored[k + 1]
                  /\ alts[k].confidence <= result.confidence

\* six scored candidates: the sixth is left out of the alternatives
C7_Witness ==
    /\ pc = "done"
    /\ Len(scored) = 6
    /\ Len(result.alternatives) = 4
    /\ result.method = "anchor"
    /\ result.alternatives[4] = scored[5]

\* C26: a result of extract_field whose method is regex is never verified: a
\* regex candidate starts at 0.55 and gains at most 0.10 + 0.15, so it ends
\* at 0.80 at most; anchor candidates start between 0.60 and 0.75, and only
\* a winner the anchor matcher produced is verified.
C26_RegexNeverVerified ==
    /\ \A k \in 1..Len(all_candidates) :
          /\ (all_candidates[k].method = "regex") =>
                (all_candidates[k].confidence = 5500)
          /\ (all_candidates[k].method = "anchor") =>
                (6000 <= all_candidates[k].confidence
                    /\ all_candidates[k].confidence <= 7500)
    /\ (pc = "done") =>
          /\ (result.method = "regex") =>
                (result.status # "verified" /\ result.confidence <= 8000)
          /\ (result.status = "verified") => (result.method = "anchor")

\* a regex winner that took both bonuses: 0.80 and needs_review
C26_Witness ==
    /\ pc = "done"
    /\ result.method = "regex"
    /\ result.confidence = 8000
    /\ result.status = "needs_review"

-----------------------------------------------------------------------------
(* Properties of score_candidates, checked under SpecScore.                *)

\* the one-to-one mappings of 1..n onto itself
Perms(n) == {p \in [1..n -> 1..n] : \A i, j \in 1..n : p[i] = p[j] => i = j}

\* C4: the adjusted confidence of each candidate, before any conflict
\* penalty, depends on that candidate alone and is min(1.0, base + n + v),
\* n = 0.10 if normalizing raw_value succeeds and 0 otherwise, v = +0.15 if
\* validation returns no error and -0.05*k if it returns k > 0 errors;
\* nothing clamps it from below.
C4_AdjustedConfidence ==
    (pc = "returned") =>
        /\ Len(adjusted) = Len(all_candidates)
        /\ \A k \in 1..Len(all_candidates) :
              LET c == all_candidates[k]
                  norm == NormalizeValue(c.raw_value, fc)
                  res == ValidateValue(IF norm.ok THEN norm.value ELSE c.raw_value, fc)
                  n == IF norm.ok THEN 1000 ELSE 0
                  v == IF res.errors = <<>> THEN 1500 ELSE 0 - 500 * Len(res.errors)
                  sum == c.confidence + n + v
              IN  ~res.raised =>
                      adjusted[k].confidence = IF sum > 10000 THEN 10000 ELSE sum

\* one candidate clamped at 1.0 and one left below zero in the same call
C4_Witness ==
    /\ pc = "returned"
    /\ \E k \in 1..Len(adjusted) :
          adjusted[k].confidence = 10000 /\ all_candidates[k].confidence = 9000
    /\ \E k \in 1..Len(adjusted) : adjusted[k].confidence < 0

C6_StableDescendingPermutation ==
    (pc = "returned") =>
        /\ Len(scored) = Len(all_candidates)
        /\ \E p \in Perms(Len(scored)) :
              /\ \A r \in 1..Len(scored) :
                    /\ scored[r].raw_value = all_candidates[p[r]].raw_value
                    /\ scored[r].method = all_candidates[p[r]].method
                    /\ scored[r] = [adjusted[p[r]] EXCEPT
                                        !.confidence = scored[r].confidence]
              /\ \A r \in 1..(Len(scored) - 1) :
                    /\ scored[r].confidence >= scored[r + 1].confidence
                    /\ adjusted[p[r]].confidence >= adjusted[p[r + 1]].confidence
                    /\ (adjusted[p[r]].confidence = adjusted[p[r + 1]].confidence)
                           => p[r] < p[r + 1]

\* an anchor candidate and a later regex candidate tie and keep their order,
\* below a candidate that was last in the input
C6_Witness ==
    /\ pc = "returned"
    /\ Len(scored) = 3
    /\ scored[1] = [adjusted[3] EXCEPT !.confidence = scored[1].confidence]
    /\ scored[2].confidence = scored[3].confidence
    /\ scored[2].method = "anchor"
    /\ scored[3].method = "regex"

-----------------------------------------------------------------------------
(* Properties of anchor_extract, checked under SpecAnchor.                 *)

\* the anchor phrase a of the configuration, split into lower-case words
WordsOf(a) == Split(Lower(fc.anchors[a]))

\* the text compared with anchor a at token i of page p: the token, or the
\* span of as many tokens as the anchor has words, joined by single spaces
SpanText(p, i, a) ==
    JoinSpace([k \in 1..Len(WordsOf(a)) |-> TokLower(At(doc[p].tokens, i + k - 1))])

\* anchor a at token i of page p has a span on the page and a non-empty
\* value token in its search window
HasValue(p, i, a) ==
    /\ i + Len(WordsOf(a)) <= Len(doc[p].tokens)
    /\ Cleaned(TokenTextNear(doc[p].tokens, i + Len(WordsOf(a)) - 1,
                             fc.search_window, doc[p].page_no)) # <<>>

\* a candidate was emitted for anchor a at token i of page p
Emitted(p, i, a) ==
    \E k \in 1..Len(origin) :
        /\ origin[k].method = "anchor"
        /\ origin[k].page = doc[p].page_no
        /\ origin[k].i = i
        /\ origin[k].a = a

\* C8: for every page, token position i and anchor phrase A with a non-empty
\* value token in the search window, a candidate is emitted for (i, A) iff
\* the similarity of the normalized token or token span to A is at least
\* 0.80; exactly 0.80 matches, anything below emits nothing.
C8_EmittedIffSimilar ==
    (pc = "returned") =>
        \A p \in 1..Len(doc) :
        \A i \in 0..(Len(doc[p].tokens) - 1) :
        \A a \in 1..Len(fc.anchors) :
            HasValue(p, i, a) =>
                LET sim == FuzzyScore(SpanText(p, i, a), fc.anchors[a])
                IN  Emitted(p, i, a) <=> (sim[1] * 100 >= 80 * sim[2])

\* a token of similarity exactly 0.80 gave a candidate, and a token of
\* similarity 0.75 that has a value token after it gave none
C8_Witness ==
    /\ pc = "returned"
    /\ \E p \in 1..Len(doc) :
       \E i \in 0..(Len(doc[p].tokens) - 1) :
          /\ HasValue(p, i, 1)
          /\ Len(WordsOf(1)) = 1
          /\ FuzzyScore(SpanText(p, i, 1), fc.anchors[1]) = <<8, 10>>
          /\ Emitted(p, i, 1)
    /\ \E p \in 1..Len(doc) :
       \E i \in 0..(Len(doc[p].tokens) - 1) :
          /\ HasValue(p, i, 1)
          /\ FuzzyScore(SpanText(p, i, 1), fc.anchors[1]) = <<6, 8>>
          /\ ~Emitted(p, i, 1)

\* C9: an anchor of N >= 2 words gives no candidate at token i when fewer
\* than N tokens remain on the page from i; a candidate it gives comes from
\* the N tokens from i on, whose normalized texts joined by single spaces
\* are similar to the whole phrase, and its value tokens are those right
\* after the N-th token of the span.
C9_MultiWordSpan ==
    (pc = "returned") =>
        /\ \A p \in 1..Len(doc) :
           \A i \in 0..(Len(doc[p].tokens) - 1) :
           \A a \in 1..Len(fc.anchors) :
              (Len(WordsOf(a)) >= 2 /\ i + Len(WordsOf(a)) > Len(doc[p].tokens))
                  => ~Emitted(p, i, a)
        /\ \A k \in 1..Len(origin) :
              LET a == origin[k].a
                  i == origin[k].i
                  N == Len(WordsOf(a))
                  p == CHOOSE q \in 1..Len(doc) : doc[q].page_no = origin[k].page
                  sim == FuzzyScore(SpanText(p, i, a), fc.anchors[a])
              IN  N >= 2 =>
                      /\ i + N <= Len(doc[p].tokens)
                      /\ sim[1] * 100 >= 80 * sim[2]
                      /\ origin[k].values =
                             [j \in 1..(Len(doc[p].tokens) - i - N) |-> i + N + j - 1]

\* "Total:" alone at the end of page 0 gives nothing for "Total Due", while
\* "Total: Due 7" on page 1 gives a candidate whose value is the third token
C9_Witness ==
    /\ pc = "returned"
    /\ fc.anchors = <<A_TotalDue>>
    /\ Len(doc[1].tokens) = 1
    /\ doc[1].tokens[1].text = W_Total
    /\ Len(doc[2].tokens) = 3
    /\ doc[2].tokens[1].text = W_Total
    /\ doc[2].tokens[2].text = W_due
    /\ ~Emitted(1, 0, 1)
    /\ Emitted(2, 0, 1)
    /\ origin[1].values = <<2>>

-----------------------------------------------------------------------------
(* Properties of _token_text_near, checked under SpecWindow.               *)

\* the index of the first token after index a of the page whose line id
\* differs from that of token a, or the length of the page if there is none
FirstDiffering(tokens, a) ==
    LET differing == {j \in (a + 1)..(Len(tokens) - 1) :
                        At(tokens, j).line_id # At(tokens, a).line_id}
    IN  IF differing = {} THEN Len(tokens)
        ELSE CHOOSE j \in differing : \A j2 \in differing : j <= j2

\* C10: with search_window = same_line_right the value tokens of an anchor
\* whose last token is at index a are exactly the tokens after a that share
\* its line id, up to the first token whose line id differs, larger or
\* smaller; no token after such a token is collected.
C10_StopsAtFirstDifferingLine ==
    (pc = "returned" /\ fc.search_window = "same_line_right") =>
        \A k \in 1..Len(origin) :
            LET tokens == doc[1].tokens
                a == origin[k].i + origin[k].span - 1
            IN  {origin[k].values[m] : m \in 1..Len(origin[k].values)}
                  = {j \in (a + 1)..(FirstDiffering(tokens, a) - 1) :
                        Cleaned(<<ValueItem(At(tokens, j))>>) # <<>>}

\* the value tokens same_line_or_next gives for an anchor ending at index a,
\* given what same_line_right gives there: those, or when there are none
\* every token of the page on the line of the first token after a that is
\* off the anchor's line
OrNextExpected(tokens, a, right) ==
    IF right # <<>> THEN right
    ELSE IF FirstDiffering(tokens, a) = Len(tokens) THEN <<>>
    ELSE LET lid == At(tokens, FirstDiffering(tokens, a)).line_id
             line == SelectSeq(tokens, LAMBDA t : t.line_id = lid)
         IN  [k \in 1..Len(line) |-> ValueItem(line[k])]

\* token i of the page matches the single-word anchor of the configuration
MatchesAt(i) ==
    LET sim == FuzzyScore(SpanText(1, i, 1), fc.anchors[1])
    IN  sim[1] * 100 >= 80 * sim[2]

\* the candidate emitted at token i, if any, has exactly the value tokens vs
ValuesAre(i, vs) ==
    IF Cleaned(vs) = <<>> THEN ~Emitted(1, i, 1)
    ELSE \E k \in 1..Len(origin) :
            /\ origin[k].i = i
            /\ origin[k].values = [m \in 1..Len(Cleaned(vs)) |-> Cleaned(vs)[m].bbox.x0]
            /\ all_candidates[k].raw_value =
                   JoinSpace([m \in 1..Len(Cleaned(vs)) |-> Cleaned(vs)[m].text])

\* C11 (as amended): with search_window = same_line_or_next, if the scan of
\* same_line_right collects at least one token the value tokens are those;
\* only if it collects none, they are all tokens of the page that carry the
\* line id of the first token after the anchor whose line id differs; the
\* two are never mixed, and an anchor that ends its page gives no candidate.
C11_SameLineOrNext ==
    (pc = "returned" /\ fc.search_window = "same_line_or_next") =>
        \A i \in 0..(Len(doc[1].tokens) - 1) :
            MatchesAt(i) =>
                LET tokens == doc[1].tokens
                    right == TokenTextNear(tokens, i, "same_line_right", doc[1].page_no)
                IN  /\ ValuesAre(i, OrNextExpected(tokens, i, right))
                    /\ (i = Len(tokens) - 1) => ~Emitted(1, i, 1)

\* an anchor with nothing after it on its line, followed by a token of a
\* smaller line id: the candidate takes the tokens of that line, the one
\* before the anchor included
C11_Witness ==
    /\ pc = "returned"
    /\ fc.search_window = "same_line_or_next"
    /\ Len(doc[1].tokens) = 3
    /\ doc[1].tokens[2].text = W_Total
    /\ doc[1].tokens[2].line_id = 1
    /\ doc[1].tokens[1].line_id = 0
    /\ doc[1].tokens[3].line_id = 0
    /\ Len(origin) = 1
    /\ origin[1].values = <<0, 2>>

\* C11 (as stated): with search_window = same_line_or_next, if at least one
\* token follows the anchor on its own line the value tokens are those of
\* same_line_right, and only if none does are they the tokens of the next
\* line id met.
C11_AsStated ==
    (pc = "returned" /\ fc.search_window = "same_line_or_next") =>
        \A i \in 0..(Len(doc[1].tokens) - 1) :
            MatchesAt(i) =>
                LET tokens == doc[1].tokens
                    right == TokenTextNear(tokens, i, "same_line_right", doc[1].page_no)
                    follows == \E j \in (i + 1)..(Len(tokens) - 1) :
                                  At(tokens, j).line_id = At(tokens, i).line_id
                IN  IF follows THEN ValuesAre(i, right)
                    ELSE ValuesAre(i, OrNextExpected(tokens, i, <<>>))

-----------------------------------------------------------------------------
(* Properties of regex_extract, checked under Spec.                        *)

\* the trimmed text regex_extract selects from a match: group 1 when the
\* pattern defines it, the whole match otherwise
SelectedText(match) ==
    IF match.g1.kind = "nogroup" THEN Strip(match.g0) ELSE Strip(match.g1.text)

\* C12: regex_extract returns, and for every match of every pattern, in
\* order, matches whose group 1 took no part included, it emits exactly one
\* candidate, whose raw_value is the trimmed group 1 when the pattern
\* defines a group and the trimmed whole match otherwise; only a match
\* whose selected text is empty is skipped.
C12_OneCandidatePerMatch ==
    (pc \in {"extracted", "scored", "done", "raised"}) =>
        LET kept == SelectSeq(finditer,
                        LAMBDA m : m.g1.kind = "unset" \/ SelectedText(m) # <<>>)
            emitted == SelectSeq(all_candidates, LAMBDA c : c.method = "regex")
        IN  /\ pc # "raised"
            /\ Len(emitted) = Len(kept)
            /\ \A k \in 1..Len(kept) :
                  kept[k].g1.kind # "unset" =>
                      emitted[k].raw_value = SelectedText(kept[k])

\* the change validation makes to the score of a value
ValidationEffect(value) ==
    LET res == ValidateValue(value, fc)
    IN  IF res.raised THEN 0
        ELSE IF res.errors = <<>> THEN ValidBonus
        ELSE 0 - ErrorPenalty * Len(res.errors)

\* C19: a candidate whose raw_value fails to normalize keeps raw_value as
\* its value, gets neither bonus nor penalty for normalization, and is
\* still validated on the raw value; a validate call that raises changes
\* the score by nothing; in both cases every candidate is scored and
\* score_candidates returns.
C19_FailuresLeaveScoreAlone ==
    (pc = "returned") =>
        /\ Len(adjusted) = Len(all_candidates)
        /\ Len(scored) = Len(all_candidates)
        /\ norm_calls = Len(all_candidates)
        /\ val_calls = Len(all_candidates)
        /\ \A k \in 1..Len(all_candidates) :
              LET c == all_candidates[k]
                  norm == NormalizeValue(c.raw_value, fc)
              IN  /\ ~norm.ok =>
                        /\ adjusted[k].value = c.raw_value
                        /\ adjusted[k].confidence =
                              Min2(c.confidence + ValidationEffect(c.raw_value), ScoreCap)
                  /\ (norm.ok /\ ValidateValue(norm.value, fc).raised) =>
                        adjusted[k].confidence = Min2(c.confidence + NormBonus, ScoreCap)
                  /\ (~norm.ok /\ ValidateValue(c.raw_value, fc).raised) =>
                        adjusted[k].confidence = c.confidence

\* "tot" does not parse as money and is still validated and penalized; the
\* candidate after it is normalized and rewarded
C19_Witness ==
    /\ pc = "returned"
    /\ fc.normalizers = <<"parse_money">>
    /\ fc.validators = <<V_pos>>
    /\ Len(all_candidates) = 2
    /\ all_candidates[1].raw_value = W_tot
    /\ all_candidates[2].raw_value = W_7
    /\ all_candidates[1].confidence = WeightRegex
    /\ all_candidates[2].confidence = WeightRegex
    /\ adjusted[1].value = W_tot
    /\ adjusted[1].confidence = WeightRegex - ErrorPenalty
    /\ adjusted[2].value = <<"float", "7">>
    /\ adjusted[2].confidence = WeightRegex + NormBonus + ValidBonus

\* the returned list is the adjusted list reordered, every confidence lowered by d
ReturnedLoweredBy(d) ==
    \E p \in Perms(Len(adjusted)) :
        \A r \in 1..Len(adjusted) :
            scored[r] = [adjusted[p[r]] EXCEPT !.confidence = @ - d]

\* C20: the conflict penalty is applied iff there are at least two
\* candidates and some candidate after the first-emitted one has a
\* normalized value different from the first's and an adjusted confidence
\* above 0.4; later candidates are compared with the first-emitted one
\* only, and the first one's own confidence is not looked at.
C20_ConflictCondition ==
    (pc = "returned") =>
        LET conflict ==
                /\ Len(adjusted) >= 2
                /\ \E k \in 2..Len(adjusted) :
                      /\ adjusted[k].value # adjusted[1].value
                      /\ adjusted[k].confidence > ConflictFloor
        IN  /\ Len(scored) = Len(adjusted)
            /\ conflict => ReturnedLoweredBy(ConflictPenalty)
            /\ ~conflict => ReturnedLoweredBy(0)

\* two later candidates disagree with each other, the second of them above
\* 0.4, but neither disagrees with the first above 0.4: no penalty
C20_Witness ==
    /\ pc = "returned"
    /\ Len(adjusted) = 3
    /\ adjusted[2].value # adjusted[1].value
    /\ adjusted[2].confidence <= ConflictFloor
    /\ adjusted[3].value = adjusted[1].value
    /\ adjusted[3].confidence > ConflictFloor
    /\ adjusted[3].confidence > adjusted[1].confidence
    /\ ReturnedLoweredBy(0)

-----------------------------------------------------------------------------
(* Specification SpecPure: the calls of Spec and of SpecScore, and          *)
(* score_candidates called once more on the list it was given.             *)

InitPure == Init \/ InitScore

NextPure ==
    \/ Next
    \/ CallScoreCandidates
    \/ CallScoreCandidatesAgain

SpecPure == InitPure /\ [][NextPure]_vars

-----------------------------------------------------------------------------
(* Specification SpecGate: should_use_llm and llm_extract_field called on  *)
(* a FieldResult as extract_field returns it and the orchestrator amends   *)
(* it, under each setting, field configuration and reply of the provider.  *)

\* confidences of the FieldResults the gate is handed
GateConfs == {0, 4000, DefaultThreshold, 9000}

\* a FieldResult with a value, as extract_field builds it
GateResult(confidence, alternatives, validation_errors) ==
    [value |-> W_7, raw_value |-> W_7, confidence |-> confidence,
     status |-> StatusOf(confidence), method |-> "regex",
     source |-> SourceLocation(0, NoBBox), evidence |-> W_7,
     alternatives |-> alternatives, validation_errors |-> validation_errors]

GateAlternatives ==
    {<<>>, <<FieldCandidate(W_tot, W_tot, 0, "regex", SourceLocation(0, NoBBox), W_tot)>>}

GateResults ==
    {MissingResult} \cup
    {GateResult(c, alts, es) :
        c \in GateConfs, alts \in GateAlternatives, es \in {<<>>, <<"error">>}}

\* replies of provider.extract
Replies ==
    {Reply("None", <<>>), Reply("dict", <<>>), Reply("int", <<>>),
     Reply("dict", [k \in {"evidence"} |-> W_Total]),
     Reply("dict", [k \in {"value", "evidence"} |-> IF k = "value" THEN None ELSE W_Total]),
     Reply("dict", [k \in {"value", "evidence"} |-> IF k = "value" THEN W_d7 ELSE W_Total]),
     Reply("dict", [k \in {"value", "evidence"} |-> IF k = "value" THEN W_d7 ELSE None]),
     Reply("dict", [k \in {"value"} |-> <<"float", "7">>]),
     Reply("dict", [k \in {"value"} |-> <<>>])}

InitGate ==
    /\ IdleJob
    /\ result \in GateResults
    /\ \E required \in BOOLEAN, fallback_allowed \in BOOLEAN :
          fc = NamedFieldConfig("total_amount", required, fallback_allowed, <<>>, <<>>,
                                <<>>, <<>>)
    /\ \E enabled \in BOOLEAN, threshold \in {DefaultThreshold, 9500} :
          settings = Settings(enabled, threshold)
    /\ \E passed \in BOOLEAN, reply \in Replies :
          llm_provider = Provider(passed, reply)
    /\ use_llm = "not_called"
    /\ fr2 = NoResult
    /\ doc_config = DocumentConfig(<<>>, <<>>)
    /\ extracted_fields = <<>>
    /\ summary = NoSummary
    /\ errors = <<>>
    /\ doc = <<>>
    /\ finditer = <<>>
    /\ all_candidates = <<>>
    /\ adjusted = <<>>
    /\ scored = <<>>
    /\ origin = <<>>
    /\ norm_calls = 0
    /\ val_calls = 0
    /\ pc = "call_gate"

\* what the gate calls leave alone
GateFrame ==
    UNCHANGED <<doc, fc, finditer, all_candidates, adjusted, scored, result, origin,
                norm_calls, val_calls, settings, llm_provider, doc_config,
                extracted_fields, summary, errors, job_vars>>

\* use = should_use_llm(result, field_config)
CallShouldUseLlm ==
    /\ pc = "call_gate"
    /\ use_llm' = ShouldUseLlm(result, fc, settings)
    /\ pc' = "should_use_llm_returned"
    /\ fr2' = fr2
    /\ GateFrame

\* fr2 = llm_extract_field(result, field_config, doc, provider)
CallLlmExtractField ==
    /\ pc = "call_gate"
    /\ ~LlmExtractField(result, llm_provider, settings).raised
    /\ fr2' = LlmExtractField(result, llm_provider, settings).result
    /\ pc' = "llm_extract_field_returned"
    /\ use_llm' = use_llm
    /\ GateFrame

\* llm_extract_field raises
LlmExtractFieldRaise ==
    /\ pc = "call_gate"
    /\ LlmExtractField(result, llm_provider, settings).raised
    /\ pc' = "llm_extract_field_raised"
    /\ UNCHANGED <<use_llm, fr2>>
    /\ GateFrame

NextGate ==
    \/ CallShouldUseLlm
    \/ CallLlmExtractField
    \/ LlmExtractFieldRaise

SpecGate == InitGate /\ [][NextGate]_vars

-----------------------------------------------------------------------------
(* Properties of the LLM fallback gate, checked under SpecGate.            *)

\* C14: should_use_llm returns true iff fallback is enabled globally and
\* allowed for the field and the result is either missing for a required
\* field or has a confidence strictly below the configured threshold; with
\* fallback disabled or not allowed it returns false whatever the result.
C14_GateCriteria ==
    pc = "should_use_llm_returned" =>
        /\ use_llm \in BOOLEAN
        /\ use_llm <=>
               /\ settings.llm_fallback_enabled
               /\ fc.fallback_allowed
               /\ \/ result.status = "missing" /\ fc.required
                  \/ result.confidence < settings.llm_confidence_threshold
        /\ (~settings.llm_fallback_enabled \/ ~fc.fallback_allowed) => (use_llm = FALSE)

\* the gate has refused a result whose confidence is exactly the threshold
C14_Witness ==
    /\ pc = "should_use_llm_returned"
    /\ settings.llm_fallback_enabled
    /\ fc.fallback_allowed
    /\ result.confidence = settings.llm_confidence_threshold
    /\ result.status = "needs_review"
    /\ use_llm = FALSE

\* C15: llm_extract_field has exactly two outcomes: with no provider, no
\* reply or a reply whose value is null it returns the FieldResult it was
\* given; otherwise it returns a new FieldResult with the reply's non-null
\* value, method llm, confidence 0.65 and status needs_review.  The
\* FieldResult it was given is never modified.
C15_TwoOutcomes ==
    /\ pc # "llm_extract_field_raised"
    /\ pc = "llm_extract_field_returned" =>
          \/ fr2 = result
          \/ /\ fr2.value # None
             /\ fr2.value = Get(llm_provider.reply.items, "value", None)
             /\ fr2.method = "llm"
             /\ fr2.confidence = LlmConfidence
             /\ fr2.status = "needs_review"

-----------------------------------------------------------------------------
(* Specification SpecCross: run_cross_field_validation called on the       *)
(* results of two fields, each absent, without a value, or holding a       *)
(* number or a text, under one rule comparing the two.                     *)

\* the values of the results handed to the validation
CrossValues ==
    {None, <<"float", "7">>, <<"float", "1">>, <<"float", "-", "7">>,
     <<"float", "-", "1">>, W_7, W_tot}

\* a FieldResult holding the value, or the result of a missing field
CrossResult(value) ==
    IF value = None THEN MissingResult
    ELSE [GateResult(9000, <<>>, <<>>) EXCEPT !.value = value, !.raw_value = Str(value)]

\* CrossFieldValidation(name, description, fields, rule)
CrossFieldValidation(left, op, right) ==
    [name |-> "rule", description |-> "rule violated", fields |-> <<left, right>>,
     rule |-> [left |-> left, op |-> op, right |-> right]]

InitCross ==
    /\ IdleJob
    /\ \E names \in SUBSET {"total_amount", "tax_amount"} :
       \E values \in [names -> CrossValues] :
          extracted_fields = [n \in names |-> CrossResult(values[n])]
    /\ \E op \in {">=", "<", "=="} :
          doc_config =
              DocumentConfig(
                  <<NamedFieldConfig("total_amount", TRUE, TRUE, <<>>, <<>>, <<>>, <<>>),
                    NamedFieldConfig("tax_amount", FALSE, TRUE, <<>>, <<>>, <<>>, <<>>)>>,
                  <<CrossFieldValidation("total_amount", op, "tax_amount")>>)
    /\ settings = Settings(FALSE, DefaultThreshold)
    /\ llm_provider = Provider(FALSE, Reply("None", <<>>))
    /\ use_llm = "not_called"
    /\ fr2 = NoResult
    /\ summary = NoSummary
    /\ errors = <<>>
    /\ doc = <<>>
    /\ fc = FieldConfig(<<>>, "same_line_or_next", <<>>, <<>>)
    /\ finditer = <<>>
    /\ all_candidates = <<>>
    /\ adjusted = <<>>
    /\ scored = <<>>
    /\ result = NoResult
    /\ origin = <<>>
    /\ norm_calls = 0
    /\ val_calls = 0
    /\ pc = "call_validation"

\* what the document-level validation leaves alone
CrossFrame ==
    UNCHANGED <<doc, fc, finditer, all_candidates, adjusted, scored, result, origin,
                norm_calls, val_calls, settings, llm_provider, use_llm, fr2,
                doc_config, extracted_fields, job_vars>>

\* errors = run_cross_field_validation(fields, doc_config)
CallRunCrossFieldValidation ==
    /\ pc = "call_validation"
    /\ errors' = RunCrossFieldValidation(extracted_fields, doc_config)
    /\ pc' = "cross_returned"
    /\ summary' = summary
    /\ CrossFrame

\* summary = compute_validation_summary(fields, doc_config)
CallComputeValidationSummary ==
    /\ pc = "call_validation"
    /\ summary' = ComputeValidationSummary(extracted_fields, doc_config)
    /\ pc' = "summary_returned"
    /\ errors' = errors
    /\ CrossFrame

NextCross ==
    \/ CallRunCrossFieldValidation
    \/ CallComputeValidationSummary

SpecCross == InitCross /\ [][NextCross]_vars

-----------------------------------------------------------------------------
(* Properties of run_cross_field_validation, checked under SpecCross.      *)

\* the value run_cross_field_validation compares for the field
ComparedValue(name) == CrossValue(extracted_fields[name].value)

\* C18: run_cross_field_validation skips a rule if a field it names is
\* absent or has no value, and otherwise reports the rule's description iff
\* the comparison is false for the values: for two numbers under the rule
\* total_amount >= tax_amount, an error iff total_amount < tax_amount.
C18_ReportsIffComparisonFalse ==
    pc = "cross_returned" =>
        LET cv == doc_config.cross_field_validations[1]
        IN  /\ ~AllPresent(extracted_fields, cv) => errors = <<>>
            /\ ( /\ AllPresent(extracted_fields, cv)
                 /\ IsFloat(ComparedValue(cv.rule.left))
                 /\ IsFloat(ComparedValue(cv.rule.right)) )
               => ( errors = <<cv.description>> <=>
                      ~Compare(cv.rule.op, NumberOf(ComparedValue(cv.rule.left)),
                               NumberOf(ComparedValue(cv.rule.right))) )

-----------------------------------------------------------------------------
(* Specification SpecPipeline: run_extraction_pipeline from the            *)
(* deterministic extraction on, for a document of one page and a           *)
(* configuration of one or two fields.  The provider answers every prompt  *)
(* with the same reply.                                                    *)

\* the matches the patterns of a field find
PatternMatches == {<<>>, <<M_group>>, <<M_unset>>}

TotalConfigs ==
    {NamedFieldConfig("total_amount", required, fallback_allowed, <<A_Total>>, ms, ns, vs) :
        required \in BOOLEAN, fallback_allowed \in BOOLEAN, ms \in PatternMatches,
        ns \in {<<>>, <<"parse_money">>},
        vs \in {<<>>, <<V_max1, V_pos, V_min3>>, <<V_empty>>}}

TaxConfigs ==
    {NamedFieldConfig("tax_amount", required, TRUE, <<A_TotalDue>>, ms,
                      <<"parse_money">>, <<>>) :
        required \in BOOLEAN, ms \in {<<>>, <<M_group>>}}

PipelineReplies ==
    {Reply("None", <<>>),
     Reply("dict", [k \in {"value", "evidence"} |-> IF k = "value" THEN W_d7 ELSE W_Total]),
     Reply("dict", [k \in {"value", "evidence"} |-> IF k = "value" THEN W_d7 ELSE None])}

InitPipeline ==
    /\ IdleJob
    /\ \E texts \in SeqsUpTo(PipeWords, MaxPipeTokens) :
          doc = <<PageOf(0, texts, [k \in 1..Len(texts) |-> 0])>>
    /\ \E total \in TotalConfigs, rest \in {<<>>} \cup {<<t>> : t \in TaxConfigs} :
          doc_config =
              DocumentConfig(<<total>> \o rest,
                             <<CrossFieldValidation("total_amount", ">=", "tax_amount")>>)
    /\ \/ /\ settings = Settings(FALSE, DefaultThreshold)
          /\ llm_provider = Provider(FALSE, Reply("None", <<>>))
       \/ /\ settings = Settings(TRUE, DefaultThreshold)
          /\ \E reply \in PipelineReplies : llm_provider = Provider(TRUE, reply)
    /\ use_llm = "not_called"
    /\ fr2 = NoResult
    /\ extracted_fields = <<>>
    /\ summary = NoSummary
    /\ errors = <<>>
    /\ fc = FieldConfig(<<>>, "same_line_or_next", <<>>, <<>>)
    /\ finditer = <<>>
    /\ all_candidates = <<>>
    /\ adjusted = <<>>
    /\ scored = <<>>
    /\ result = NoResult
    /\ origin = <<>>
    /\ norm_calls = 0
    /\ val_calls = 0
    /\ pc = "extracting"

\* what the pipeline steps leave alone
PipelineFrame ==
    UNCHANGED <<doc, fc, finditer, all_candidates, adjusted, scored, result, origin,
                norm_calls, val_calls, settings, llm_provider, use_llm, fr2,
                doc_config, errors, job_vars>>

\* the field the extraction loop is at
NextField == doc_config.fields[Cardinality(DOMAIN extracted_fields) + 1]

\* extracted_fields[fname] = fr
Stored(name, outcome) ==
    /\ ~outcome.raised
    /\ extracted_fields' = Put(extracted_fields, name, outcome.result)

\* one round of the extraction loop: extract_field returns, the result is
\* validated and stored
ExtractFieldStep ==
    /\ pc = "extracting"
    /\ Cardinality(DOMAIN extracted_fields) < Len(doc_config.fields)
    /\ Stored(NextField.name, ExtractOne(doc, NextField))
    /\ UNCHANGED <<pc, summary>>
    /\ PipelineFrame

\* extract_field or validate_value raises: nothing catches it before the
\* handler around the whole pipeline, which logs and raises again
ExtractFieldRaise ==
    /\ pc = "extracting"
    /\ Cardinality(DOMAIN extracted_fields) < Len(doc_config.fields)
    /\ ExtractOne(doc, NextField).raised
    /\ pc' = "pipeline_raised"
    /\ UNCHANGED <<extracted_fields, summary>>
    /\ PipelineFrame

\* extracted_fields after the fallback loop
Replaced(outcome) ==
    /\ ~outcome.raised
    /\ extracted_fields' = outcome.fields

\* step 5: every field the gate lets through is handed to the LLM
LlmFallbackStep ==
    /\ pc = "extracting"
    /\ Cardinality(DOMAIN extracted_fields) = Len(doc_config.fields)
    /\ Replaced(LlmFallback(extracted_fields, doc_config, llm_provider, settings))
    /\ pc' = "fallback_done"
    /\ summary' = summary
    /\ PipelineFrame

\* llm_extract_field raises, and the pipeline with it
LlmFallbackRaise ==
    /\ pc = "extracting"
    /\ Cardinality(DOMAIN extracted_fields) = Len(doc_config.fields)
    /\ LlmFallback(extracted_fields, doc_config, llm_provider, settings).raised
    /\ pc' = "pipeline_raised"
    /\ UNCHANGED <<extracted_fields, summary>>
    /\ PipelineFrame

\* steps 6 and 7: the summary is computed and the ExtractionResult built from
\* extracted_fields and the summary
SummaryStep ==
    /\ pc = "fallback_done"
    /\ summary' = ComputeValidationSummary(extracted_fields, doc_config)
    /\ pc' = "pipeline_done"
    /\ extracted_fields' = extracted_fields
    /\ PipelineFrame

NextPipeline ==
    \/ ExtractFieldStep
    \/ ExtractFieldRaise
    \/ LlmFallbackStep
    \/ LlmFallbackRaise
    \/ SummaryStep

SpecPipeline == InitPipeline /\ [][NextPipeline]_vars

-----------------------------------------------------------------------------
(* Properties of run_extraction_pipeline, checked under SpecPipeline.      *)

\* C16: a failure raised while one field is extracted does not abort the
\* pipeline: the extraction loop never ends in the pipeline raising.
C16_FieldFailureContained ==
    ~( /\ pc = "pipeline_raised"
       /\ Cardinality(DOMAIN extracted_fields) < Len(doc_config.fields) )

\* the configuration of the field name
FieldNamed(name) ==
    doc_config.fields[CHOOSE k \in 1..Len(doc_config.fields) : doc_config.fields[k].name = name]

\* C23: a FieldResult is never mutated in place after extract_field has
\* returned it: until the LLM fallback replaces results wholesale, every
\* stored result, validation_errors included, is as extract_field created it.
C23_NeverMutatedInPlace ==
    (pc = "extracting") =>
        \A name \in DOMAIN extracted_fields :
            extracted_fields[name] = ExtractField(doc, FieldNamed(name)).result

\* the result the extraction loop stored for the field name
Extracted(name) == ExtractOne(doc, FieldNamed(name)).result

\* C27: with the default threshold 0.5, for every result of extract_field
\* the gate is true exactly when the fallback is enabled, allowed for the
\* field and the status is missing; the required flag does not change the
\* decision, and a verified or needs_review result is never replaced.
C27_GateIffMissing ==
    (settings.llm_confidence_threshold = DefaultThreshold) =>
        \A name \in DOMAIN extracted_fields :
            LET field_config == FieldNamed(name)
                fr == Extracted(name)
            IN  /\ ShouldUseLlm(fr, field_config, settings)
                       <=> ( /\ settings.llm_fallback_enabled
                             /\ field_config.fallback_allowed
                             /\ fr.status = "missing" )
                /\ ShouldUseLlm(fr, [field_config EXCEPT !.required = ~@], settings)
                       = ShouldUseLlm(fr, field_config, settings)
                /\ (fr.status \in {"verified", "needs_review"}) =>
                       (extracted_fields[name] = fr)

\* the fallback has replaced the missing result of a field that is not
\* required and kept a result that needs review
C27_Witness ==
    /\ pc = "fallback_done"
    /\ \E name \in DOMAIN extracted_fields :
          /\ ~FieldNamed(name).required
          /\ Extracted(name).status = "missing"
          /\ extracted_fields[name].method = "llm"
    /\ \E name \in DOMAIN extracted_fields :
          /\ FieldNamed(name).fallback_allowed
          /\ Extracted(name).status = "needs_review"
          /\ extracted_fields[name] = Extracted(name)

\* the names of the required fields that have no result or a missing one
MissingRequired ==
    {doc_config.fields[k].name : k \in
        {j \in 1..Len(doc_config.fields) :
            /\ doc_config.fields[j].required
            /\ \/ doc_config.fields[j].name \notin DOMAIN extracted_fields
               \/ extracted_fields[doc_config.fields[j].name].status = "missing"}}

\* C17: for the results of extract_field, some replaced by
\* llm_extract_field, compute_validation_summary returns an
\* overall_confidence within [0, 1], as required_missing exactly the
\* required fields without a result or with status missing, each once, and
\* required_present true iff there is none.
C17_SummaryOfPipeline ==
    pc = "pipeline_done" =>
        /\ summary.overall_confidence >= 0
        /\ summary.overall_confidence <= ScoreCap
        /\ {summary.required_missing[k] : k \in 1..Len(summary.required_missing)}
               = MissingRequired
        /\ Len(summary.required_missing) = Cardinality(MissingRequired)
        /\ summary.required_present <=> (summary.required_missing = <<>>)

\* a verified total, a required tax without candidates and no fallback
C17_Witness ==
    /\ pc = "pipeline_done"
    /\ extracted_fields["total_amount"].status = "verified"
    /\ "tax_amount" \in DOMAIN extracted_fields
    /\ extracted_fields["tax_amount"].status = "missing"
    /\ summary.required_missing = <<"tax_amount">>
    /\ ~summary.required_present
    /\ summary.overall_confidence = ScoreCap

-----------------------------------------------------------------------------
(* Specification SpecBBox: regex_extract called on a document of two pages *)
(* (page numbers 1 and 2) with matches of one to three words.  full_text   *)
(* is handed over by the normalizer beside the tokens, so the matches are  *)
(* drawn independently of the tokens.                                      *)

T_Due7 == <<"D", "u", "e", " ", "7">>
T_7Due == <<"7", " ", "D", "u", "e">>
T_Due77 == <<"D", "u", "e", " ", "7", " ", "7">>

\* a match of a pattern without groups
WholeMatch(text) == [g0 |-> text, g1 |-> [kind |-> "nogroup", text |-> <<>>], ctx |-> text]

BBoxMatches == {WholeMatch(t) : t \in {T_Due7, T_7Due, T_Due77, W_7, W_tot}}

InitBBox ==
    /\ \E texts \in SeqsUpTo({W_due, W_7}, MaxBBoxTokens) :
       \E cut \in 0..Len(texts) :
          doc = <<PageOf(1, SubSeq(texts, 1, cut), [k \in 1..cut |-> 0]),
                  PageOf(2, SubSeq(texts, cut + 1, Len(texts)),
                         [k \in 1..(Len(texts) - cut) |-> 0])>>
    /\ finditer \in SeqsUpTo(BBoxMatches, MaxBBoxMatches)
    /\ fc = FieldConfig(<<>>, "same_line_or_next", <<>>, <<>>)
    /\ all_candidates = <<>>
    /\ pc = "call_regex_extract"
    /\ Idle

\* candidates = regex_extract(doc, field_config)
CallRegexExtract ==
    /\ pc = "call_regex_extract"
    /\ ~RegexExtract(doc, finditer).raised
    /\ all_candidates' = RegexExtract(doc, finditer).candidates
    /\ origin' = LET es == RegexEmissions(doc, finditer, 1).es
                 IN  [k \in 1..Len(es) |-> es[k].from]
    /\ pc' = "returned"
    /\ UNCHANGED <<pipeline_vars, job_vars>>
    /\ UNCHANGED <<doc, fc, finditer, adjusted, scored, result, norm_calls, val_calls>>

SpecBBox == InitBBox /\ [][CallRegexExtract]_vars

-----------------------------------------------------------------------------
(* Properties of _find_token_bbox, checked under SpecBBox.                 *)

\* the tokens i .. i + Len(words) - 1 of the page all exist and equal the words
FullRun(page, i, words) ==
    /\ i >= 1
    /\ i + Len(words) - 1 <= Len(page.tokens)
    /\ StripChars(Lower(page.tokens[i].text), FirstWordStrip)
          = StripChars(words[1], WordStrip)
    /\ \A j \in 2..Len(words) :
          StripChars(Lower(page.tokens[i + j - 1].text), WordStrip)
              = StripChars(words[j], WordStrip)

\* the envelope of the tokens i .. i + n - 1 of the page
RunEnvelope(page, i, n) == BestBBox([j \in 1..n |-> page.tokens[i + j - 1].bbox])

\* C21: a regex candidate has a bounding envelope and a page only when all
\* words of its value equal, after stripping, one contiguous run of tokens
\* of a single page, a run cut short by the end of the page not counting;
\* when there is no such run on any page it has page 0 and no bbox.
C21_WholeRunOnly ==
    (pc = "returned") =>
        \A k \in 1..Len(all_candidates) :
            LET c == all_candidates[k]
                words == Split(Lower(c.raw_value))
                runs == {pi \in (1..Len(doc)) \X (1..MaxBBoxTokens + 1) :
                            FullRun(doc[pi[1]], pi[2], words)}
            IN  /\ runs = {} =>
                      (c.source.page = 0 /\ c.source.bbox = NoBBox)
                /\ c.source.bbox # NoBBox =>
                      \E pi \in runs :
                          /\ c.source.page = doc[pi[1]].page_no
                          /\ c.source.bbox = RunEnvelope(doc[pi[1]], pi[2], Len(words))

\* the cleaning that strips the colon from the first value token only
CleanedFirstOnly(value_tokens) ==
    LET stripped == [m \in 1..Len(value_tokens) |->
                        IF m = 1
                        THEN Strip(LStripChars(Strip(value_tokens[m].text), {":"}))
                        ELSE value_tokens[m].text]
    IN  SelectSeq(stripped, LAMBDA txt : txt # <<>>)

\* C25: of the value tokens collected for a matched anchor, a leading ':' is
\* stripped from the first token's text only and later texts are left as
\* they are; empty texts are dropped, no candidate is emitted if none
\* remains, and raw_value is the remaining texts joined by single spaces.
C25_ColonOffFirstOnly ==
    (pc = "returned") =>
        \A i \in 0..(Len(doc[1].tokens) - 1) :
            MatchesAt(i) =>
                LET texts == CleanedFirstOnly(TokenTextNear(doc[1].tokens, i,
                                 fc.search_window, doc[1].page_no))
                IN  IF texts = <<>> THEN ~Emitted(1, i, 1)
                    ELSE \E k \in 1..Len(origin) :
                            /\ origin[k].i = i
                            /\ all_candidates[k].raw_value = JoinSpace(texts)

-----------------------------------------------------------------------------
(* Specification SpecNext3: anchor_extract with search_window =            *)
(* next_3_lines on one page that starts with the anchor, followed by value *)
(* tokens on lines 0 to 3.                                                 *)

Next3LineIds == 0..3

InitNext3 ==
    /\ \E n \in 0..MaxNext3Tokens :
       \E lines \in [1..(n + 1) -> Next3LineIds] :
          doc = <<PageOf(0, [k \in 1..(n + 1) |-> IF k = 1 THEN W_Total ELSE W_7], lines)>>
    /\ fc = FieldConfig(<<A_Total>>, "next_3_lines", <<>>, <<>>)
    /\ finditer = <<>>
    /\ all_candidates = <<>>
    /\ pc = "call_anchor_extract"
    /\ Idle

SpecNext3 == InitNext3 /\ [][CallAnchorExtract]_vars

-----------------------------------------------------------------------------
(* Properties of the next_3_lines window, checked under SpecNext3.         *)

\* the line ids above the anchor's among the tokens after the anchor and before k
LinesBefore(tokens, k) ==
    {tokens[j].line_id : j \in {m \in 2..(k - 1) : tokens[m].line_id > tokens[1].line_id}}

\* the tokens after the anchor that satisfy keep, in document order
TokensKept(tokens, keep(_)) ==
    LET idx == SelectSeq([k \in 1..Len(tokens) |-> k], LAMBDA k : k >= 2 /\ keep(k))
    IN  [m \in 1..Len(idx) |-> ValueItem(tokens[idx[m]])]

\* C22: with search_window = next_3_lines the value tokens are all tokens,
\* in document order, of the first up-to-three distinct line ids that follow
\* the anchor's line: every token of each of those lines, none of the
\* anchor's line or of a fourth line
C22_WholeLines ==
    (pc = "returned") =>
        LET tokens == doc[1].tokens
            keep(k) == /\ tokens[k].line_id > tokens[1].line_id
                       /\ Cardinality(LinesBefore(tokens, k) \cup {tokens[k].line_id}) <= 3
        IN  ValuesAre(0, TokensKept(tokens, keep))

-----------------------------------------------------------------------------
(* Specification SpecJob: one job from POST /v1/extract through the        *)
(* attempts of extract_task (app/workers/celery_app.py) to its final       *)
(* status, with GET /v1/jobs/{job_id} called at any time.  Every database  *)
(* write, the upload and the extraction itself either succeeds or raises.  *)
(* pc is the position of the request and of the task.                      *)

InitJob ==
    /\ doc = <<>>
    /\ fc = FieldConfig(<<>>, "same_line_or_next", <<>>, <<>>)
    /\ finditer = <<>>
    /\ all_candidates = <<>>
    /\ pc = "not_submitted"
    /\ Idle

\* what the job steps leave alone
JobFrame ==
    UNCHANGED <<doc, fc, finditer, all_candidates, adjusted, scored, result, origin,
                norm_calls, val_calls, pipeline_vars>>

\* extract_document: create_document, create_job and extract_task.delay
ExtractDocument ==
    /\ pc = "not_submitted"
    /\ job_status' = "pending"
    /\ pc' = "queued"
    /\ UNCHANGED <<retries, artifacts, field_rows, pipeline_runs, response>>
    /\ JobFrame

\* extract_task up to the call of run_extraction_pipeline
TaskStart ==
    /\ pc = "queued"
    /\ job_status' = "processing"
    /\ pipeline_runs' = pipeline_runs + 1
    /\ pc' = "pipeline_started"
    /\ UNCHANGED <<retries, artifacts, field_rows, response>>
    /\ JobFrame

\* update_job_status_sync(job_id, "processing") raises
TaskStartRaise ==
    /\ pc = "queued"
    /\ pc' = "handling"
    /\ UNCHANGED job_vars
    /\ JobFrame

\* step 1 of the pipeline: upload_bytes and save_artifact_sync(..., "original", ...)
UploadOriginal ==
    /\ pc = "pipeline_started"
    /\ artifacts' = artifacts + 1
    /\ pc' = "uploaded"
    /\ UNCHANGED <<job_status, retries, field_rows, pipeline_runs, response>>
    /\ JobFrame

\* the upload or the artifact insert raises: the pipeline logs and raises again
UploadOriginalRaise ==
    /\ pc = "pipeline_started"
    /\ pc' = "handling"
    /\ UNCHANGED job_vars
    /\ JobFrame

\* steps 2 to 7: normalization, configuration, extraction, fallback, summary
\* and the ExtractionResult
BuildExtractionResult ==
    /\ pc = "uploaded"
    /\ pc' = "built"
    /\ UNCHANGED job_vars
    /\ JobFrame

\* one of the steps 2 to 7 raises
BuildExtractionResultRaise ==
    /\ pc = "uploaded"
    /\ pc' = "handling"
    /\ UNCHANGED job_vars
    /\ JobFrame

\* step 8 raising without the pipeline raising again
SaveFieldResultsRaiseSwallowed ==
    /\ pc = "built"
    /\ pc' = "pipeline_returned"
    /\ UNCHANGED job_vars
    /\ JobFrame

\* step 8: save_field_results_sync(job_id, result), and the pipeline returns
SaveFieldResults ==
    /\ pc = "built"
    /\ field_rows' = field_rows + 1
    /\ pc' = "pipeline_returned"
    /\ UNCHANGED <<job_status, retries, artifacts, pipeline_runs, response>>
    /\ JobFrame

\* save_field_results_sync raises: logged and raised again, twice
SaveFieldResultsRaise ==
    /\ pc = "built"
    /\ pc' = "handling"
    /\ UNCHANGED job_vars
    /\ JobFrame

\* update_job_status_sync(job_id, "completed") and the task returns
TaskComplete ==
    /\ pc = "pipeline_returned"
    /\ job_status' = "completed"
    /\ pc' = "task_succeeded"
    /\ UNCHANGED <<retries, artifacts, field_rows, pipeline_runs, response>>
    /\ JobFrame

\* update_job_status_sync(job_id, "completed") raises
TaskCompleteRaise ==
    /\ pc = "pipeline_returned"
    /\ pc' = "handling"
    /\ UNCHANGED job_vars
    /\ JobFrame

\* the handler marking the job failed on every failing attempt
TaskRetryMarkingFailed ==
    /\ pc = "handling"
    /\ retries < MaxRetries
    /\ job_status' = "failed"
    /\ retries' = retries + 1
    /\ pc' = "queued"
    /\ UNCHANGED <<artifacts, field_rows, pipeline_runs, response>>
    /\ JobFrame

\* the handler granting one retry more than max_retries
TaskRetryOnceMore ==
    /\ pc = "handling"
    /\ retries <= MaxRetries
    /\ retries' = retries + 1
    /\ pc' = "queued"
    /\ UNCHANGED <<job_status, artifacts, field_rows, pipeline_runs, response>>
    /\ JobFrame

\* except Exception with retries left: self.retry(exc=exc) queues the task again
TaskRetry ==
    /\ pc = "handling"
    /\ retries < MaxRetries
    /\ retries' = retries + 1
    /\ pc' = "queued"
    /\ UNCHANGED <<job_status, artifacts, field_rows, pipeline_runs, response>>
    /\ JobFrame

\* except Exception with the retries used up: the job is marked failed and
\* self.retry raises the exception
TaskFail ==
    /\ pc = "handling"
    /\ retries >= MaxRetries
    /\ job_status' = "failed"
    /\ pc' = "task_failed"
    /\ UNCHANGED <<retries, artifacts, field_rows, pipeline_runs, response>>
    /\ JobFrame

\* update_job_status_sync(job_id, "failed", ...) raises out of the handler
TaskFailRaise ==
    /\ pc = "handling"
    /\ retries >= MaxRetries
    /\ pc' = "task_died"
    /\ UNCHANGED job_vars
    /\ JobFrame

\* get_job_status: the status of the job, and the result of get_latest_result
\* if the status is completed
GetJobStatus ==
    /\ job_status # "none"
    /\ response' = [status |-> job_status, result |-> (job_status = "completed")]
    /\ UNCHANGED <<pc, job_status, retries, artifacts, field_rows, pipeline_runs>>
    /\ JobFrame

\* the steps of the worker
WorkerStep ==
    \/ TaskStart
    \/ TaskStartRaise
    \/ UploadOriginal
    \/ UploadOriginalRaise
    \/ BuildExtractionResult
    \/ BuildExtractionResultRaise
    \/ SaveFieldResults
    \/ SaveFieldResultsRaise
    \/ TaskComplete
    \/ TaskCompleteRaise
    \/ TaskRetry
    \/ TaskFail
    \/ TaskFailRaise

NextJob ==
    \/ ExtractDocument
    \/ WorkerStep
    \/ GetJobStatus

SpecJob == InitJob /\ [][NextJob]_vars

\* the worker runs a queued task, and a retry is delivered after its delay
SpecJobFair == SpecJob /\ WF_vars(WorkerStep)

-----------------------------------------------------------------------------
(* Properties of the job and its task, checked under SpecJob.              *)

\* a step of the task leaves the Job row with this status
Writes(status) == pc' # pc /\ job_status' = status

\* C24 (as amended): extract_task writes status failed only in the handler of
\* an attempt whose retry count has reached max_retries (2); on every
\* earlier failing attempt the handler writes no status (the status stays
\* processing, or pending if no update to processing has succeeded yet) and
\* the task is queued again; status completed is written only after
\* run_extraction_pipeline has returned in that attempt.
C24_FailedOnlyWhenExhausted ==
    /\ []((job_status = "failed") => (retries = MaxRetries))
    /\ []((pc = "handling") => (job_status \in {"pending", "processing"}))
    /\ [][ /\ Writes("failed") => (pc = "handling" /\ retries = MaxRetries)
           /\ (pc = "handling" /\ retries < MaxRetries /\ pc' # pc) =>
                 (job_status' = job_status /\ pc' = "queued" /\ retries' = retries + 1)
           /\ Writes("completed") => (pc = "pipeline_returned") ]_vars

\* the third attempt has failed and the job is marked failed
C24_Witness ==
    /\ pc = "task_failed"
    /\ job_status = "failed"
    /\ retries = MaxRetries
    /\ pipeline_runs = 3

\* C24 as stated: on every failing attempt before the last the status is
\* processing when the task is retried
C24_AsStated ==
    (pc = "handling" /\ retries < MaxRetries) => (job_status = "processing")

\* C28: a job whose status is completed has had its field results persisted
\* by a pipeline run of the job: the pipeline returns only in the step that
\* adds the rows, the completed update is made only after the pipeline has
\* returned, so an attempt whose persistence fails never marks the job
\* completed; and the API returns a result only for a completed job.
C28_CompletedAfterPersisted ==
    /\ []((job_status = "completed") => (field_rows >= 1))
    /\ [](response.result => (response.status = "completed" /\ job_status = "completed"))
    /\ [][ /\ (pc' = "pipeline_returned" /\ pc # "pipeline_returned") =>
                 (pc = "built" /\ field_rows' = field_rows + 1)
           /\ Writes("completed") => (pc = "pipeline_returned" /\ field_rows >= 1)
           /\ (pc = "built" /\ field_rows' = field_rows /\ pc' # pc) =>
                 (pc' = "handling" /\ job_status' # "completed") ]_vars

\* the API has returned the result of a job completed on its second attempt,
\* the first having failed to persist
C28_Witness ==
    /\ job_status = "completed"
    /\ retries = 1
    /\ field_rows = 1
    /\ response.result

\* C29: across all attempts of one job the row of the original-file
\* artifact and the set of field-result rows are each written at most once.
C29_WrittenAtMostOnce ==
    /\ artifacts <= 1
    /\ field_rows <= 1

-----------------------------------------------------------------------------
(* Termination of the job, checked under SpecJobFair.                      *)

\* C30: the worker runs the pipeline at most three times for a job; unless
\* the update to failed itself fails, a job whose task is queued eventually
\* is completed or failed, and from then on its status never changes.
C30_JobTerminates ==
    /\ [](pipeline_runs <= MaxRetries + 1)
    /\ (pc = "queued") ~> (job_status \in {"completed", "failed"} \/ pc = "task_died")
    /\ [][(job_status \in {"completed", "failed"}) => (job_status' = job_status)]_vars

\* the pipeline has run three times and the job is completed
C30_Witness ==
    /\ pipeline_runs = MaxRetries + 1
    /\ job_status = "completed"
    /\ pc = "task_succeeded"

====
